---- MODULE Spec2Model ----
(***************************************************************************)
(* k8sh: the navigation engine of the interactive kubernetes shell.        *)
(* Strings are sequences of one-character strings, so that startswith,     *)
(* replace, split and fnmatch are computed as the code computes them.      *)
(* A node (KubeObject) is the sequence of [kind, name] records from the    *)
(* root of its tree down to itself; <<>> stands for Python's None.         *)
(***************************************************************************)
EXTENDS Naturals, Sequences, FiniteSets, TLC

\* ------------------------------------------------------------------ bounds

\* Longest path, in segments, the enumerated cd inputs have.
MaxSegs == 2
\* The backend calls of one command that the failure oracle can make fail.
MaxFail == 3
\* Namespaces of the wide cluster used to exercise the ls query guard.
WideCount == 16

\* shell.MAX_QUERY_LENGTH
MAX_QUERY_LENGTH == 15

\* ----------------------------------------------------------------- strings

None == <<>>

SLASH == <<"/">>
DOTDOT == <<".", ".">>
DOTDOTSLASH == <<".", ".", "/">>

\* str.startswith
StartsWith(s, p) ==
    /\ Len(p) <= Len(s)
    /\ SubSeq(s, 1, Len(p)) = p

\* s[n:]
Drop(s, n) == SubSeq(s, n + 1, Len(s))

\* str.replace(old, ""): every non-overlapping occurrence, left to right
RECURSIVE ReplaceAll(_, _)
ReplaceAll(s, old) ==
    IF s = <<>> THEN <<>>
    ELSE IF StartsWith(s, old) THEN ReplaceAll(Drop(s, Len(old)), old)
    ELSE <<Head(s)>> \o ReplaceAll(Tail(s), old)

\* str.split("/"): always at least one part
RECURSIVE SplitFrom(_, _)
SplitFrom(s, acc) ==
    IF s = <<>> THEN <<acc>>
    ELSE IF Head(s) = "/" THEN <<acc>> \o SplitFrom(Tail(s), <<>>)
    ELSE SplitFrom(Tail(s), Append(acc, Head(s)))

Split(s) == SplitFrom(s, <<>>)

\* "/".join(parts)
RECURSIVE Join(_)
Join(parts) ==
    IF parts = <<>> THEN <<>>
    ELSE IF Len(parts) = 1 THEN parts[1]
    ELSE parts[1] \o SLASH \o Join(Tail(parts))

\* glob.has_magic: the pattern holds one of * ? [
HasMagic(pat) == \E i \in 1..Len(pat) : pat[i] \in {"*", "?", "["}

\* fnmatch.fnmatch for the wildcards * and ? (no input here holds a bracket)
RECURSIVE FnMatch(_, _)
FnMatch(s, pat) ==
    IF pat = <<>> THEN s = <<>>
    ELSE IF Head(pat) = "*"
         THEN \/ FnMatch(s, Tail(pat))
              \/ (s # <<>> /\ FnMatch(Tail(s), pat))
    ELSE IF s = <<>> THEN FALSE
    ELSE /\ (Head(pat) = "?" \/ Head(pat) = Head(s))
         /\ FnMatch(Tail(s), Tail(pat))

\* ------------------------------------------------------------------- nodes

Obj(kind, name) == [kind |-> kind, name |-> name]

\* KubeCmd.__init__: the placeholder object current holds before any use
Sentinel == <<Obj("", <<"n", "u", "l", "l">>)>>

Self(n) == n[Len(n)]
Kind(n) == Self(n).kind
Name(n) == Self(n).name

\* KubeObject.parent (None for the root-most object)
Parent(n) == IF Len(n) <= 1 THEN None ELSE SubSeq(n, 1, Len(n) - 1)

\* KubeObject.root
RECURSIVE RootOf(_)
RootOf(n) == IF Parent(n) = None THEN n ELSE RootOf(Parent(n))

\* path_fragment() of each kind
PathFragment(n) ==
    CASE Kind(n) = "cluster" -> SLASH
      [] Kind(n) = "pod" -> <<"p", "o", "d", ".">> \o Name(n)
      [] Kind(n) = "service" -> <<"s", "e", "r", "v", "i", "c", "e", ".">> \o Name(n)
      [] OTHER -> Name(n)

\* Mutant of match: the name is compared, not the path fragment
MatchName(n, maybe_glob) ==
    IF ~HasMagic(maybe_glob) THEN Name(n) = maybe_glob
    ELSE FnMatch(Name(n), maybe_glob)

\* os.path.join: a part that starts with "/" drops what came before it, and a
\* "/" is put in front of a part unless what came before is empty or ends
\* with one
RECURSIVE OsPathJoinFrom(_, _)
OsPathJoinFrom(path, p) ==
    IF p = <<>> THEN path
    ELSE OsPathJoinFrom(IF StartsWith(Head(p), SLASH) THEN Head(p)
                        ELSE IF path = <<>> \/ path[Len(path)] = "/"
                             THEN path \o Head(p)
                        ELSE path \o SLASH \o Head(p),
                        Tail(p))

OsPathJoin(parts) == OsPathJoinFrom(Head(parts), Tail(parts))

\* The fragments of the object and of its ancestors, root first
Hierarchy(n) == [i \in 1..Len(n) |-> PathFragment(SubSeq(n, 1, i))]

\* Mutant of path: the fragments are joined with "/".join
PathSlashJoined(n) == Join(Hierarchy(n))

\* KubeObject.path
Path(n) == OsPathJoin(Hierarchy(n))

\* KubeObject.match
Match(n, maybe_glob) ==
    IF ~HasMagic(maybe_glob) THEN PathFragment(n) = maybe_glob
    ELSE FnMatch(PathFragment(n), maybe_glob)

\* is_deletable: False for Cluster and Container
IsDeletable(n) == Kind(n) \notin {"cluster", "container"}

\* ----------------------------------------------------------------- backend

\* The objects the backend can report: cluster "k" holds two namespaces with
\* pods, a service and containers; cluster "w" holds WideCount empty namespaces.
ClusterK == <<Obj("cluster", <<"k">>)>>
ClusterW == <<Obj("cluster", <<"w">>)>>
NsA == Append(ClusterK, Obj("namespace", <<"a">>))
NsB == Append(ClusterK, Obj("namespace", <<"b">>))
PodAA == Append(NsA, Obj("pod", <<"a">>))
SvcAA == Append(NsA, Obj("service", <<"a">>))
PodBA == Append(NsB, Obj("pod", <<"a">>))
CtAAA == Append(PodAA, Obj("container", <<"a">>))
CtAAB == Append(PodAA, Obj("container", <<"b">>))
CtBAA == Append(PodBA, Obj("container", <<"a">>))

WideLetters == <<"v", "w", "x", "y", "z">>
WideNs(i) ==
    Append(ClusterW, Obj("namespace",
        <<WideLetters[((i - 1) \div 5) + 1], WideLetters[((i - 1) % 5) + 1]>>))

\* The order in which the backend lists items.
BackendOrder ==
    <<NsA, NsB, PodAA, SvcAA, PodBA, CtAAA, CtAAB, CtBAA>>
        \o [i \in 1..WideCount |-> WideNs(i)]

InitialWorld == {BackendOrder[i] : i \in 1..Len(BackendOrder)}

\* "items" of a successful get <kind>s issued for node n
Items(w, n, kind) ==
    SelectSeq(BackendOrder, LAMBDA m : m \in w /\ Parent(m) = n /\ Kind(m) = kind)

IsPrefix(p, n) == Len(p) <= Len(n) /\ SubSeq(n, 1, Len(p)) = p
Below(p, n) == IsPrefix(p, n) /\ n # p

\* ------------------------------------------------- the state of one command

\* A command runs on a record: the caches, the backend, the calls issued so
\* far, the call the oracle fails (0: none), the exception raised ("": none),
\* the children accesses and fetches it made, and the value last returned.
Put(f, k, v) == [x \in (DOMAIN f) \cup {k} |-> IF x = k THEN v ELSE f[x]]
Without(f, S) == [x \in (DOMAIN f) \ S |-> f[x]]

Begin(c, h, w, failAt) ==
    [cache |-> c, hostname |-> h, world |-> w, calls |-> 0, failAt |-> failAt,
     err |-> "", reads |-> <<>>, fetched |-> <<>>, failed |-> None,
     deleted |-> <<>>, ret |-> <<>>, node |-> None, val |-> <<>>,
     steps |-> <<>>, counter |-> 0, segs |-> <<>>,
     interactive |-> FALSE, to_delete |-> <<>>, msg |-> "", issued |-> <<>>,
     intAt |-> 0, rc |-> 0, terminated |-> <<>>]

\* The same, the operator interrupting during the call the oracle intAt names
BeginInt(c, h, w, failAt, intAt) == [Begin(c, h, w, failAt) EXCEPT !.intAt = intAt]

\* Kubectl.run: one backend call; the oracle's call returns a non-zero status
Run(st) == [st EXCEPT !.calls = @ + 1]
RunFailed(st) == st.calls = st.failAt

\* Kubectl.json: k8shError on a non-zero status or undecodable output; a get
\* that names an object the backend does not hold (present false) ends non-zero
Json(st, present) ==
    IF RunFailed(Run(st)) \/ ~present THEN [Run(st) EXCEPT !.err = "k8shError"]
    ELSE Run(st)

\* Newly built child objects have no cache of their own.
Fresh(st, n) ==
    [st EXCEPT !.cache = Without(@, {m \in DOMAIN @ : Below(n, m)}),
               !.hostname = Without(@, {m \in DOMAIN @ : Below(n, m)})]

\* v is computed once and handed to F, as a Python local is
With(v, F(_)) == CHOOSE y \in {F(x) : x \in {v}} : TRUE

\* Mutant of Cluster.children: the cached list is never used
ClusterChildrenUncached(st, n) ==
    With(Json([st EXCEPT !.cache = Put(@, n, <<>>), !.fetched = Append(@, n)], TRUE),
    LAMBDA s2 :
        IF s2.err # "" THEN [s2 EXCEPT !.failed = n]
        ELSE With(Items(s2.world, n, "namespace"), LAMBDA items :
             [Fresh(s2, n) EXCEPT !.cache = Put(@, n, items), !.ret = items]))

\* Cluster.children
ClusterChildren(st, n) ==
    IF n \in DOMAIN st.cache THEN [st EXCEPT !.ret = st.cache[n]]
    ELSE With(Json([st EXCEPT !.cache = Put(@, n, <<>>), !.fetched = Append(@, n)],
                   TRUE),
         LAMBDA s2 :
             IF s2.err # "" THEN [s2 EXCEPT !.failed = n]
             ELSE With(Items(s2.world, n, "namespace"), LAMBDA items :
                  [Fresh(s2, n) EXCEPT !.cache = Put(@, n, items), !.ret = items]))

\* Namespace.children: the pods, then the services
NamespaceChildren(st, n) ==
    IF n \in DOMAIN st.cache THEN [st EXCEPT !.ret = st.cache[n]]
    ELSE With(Json([st EXCEPT !.cache = Put(@, n, <<>>), !.fetched = Append(@, n)],
                   TRUE),
         LAMBDA s2 :
             IF s2.err # "" THEN [s2 EXCEPT !.failed = n]
             ELSE With(Items(s2.world, n, "pod"), LAMBDA pods :
                  With(Json([Fresh(s2, n) EXCEPT !.cache = Put(@, n, pods)], TRUE),
                  LAMBDA s4 :
                      IF s4.err # "" THEN [s4 EXCEPT !.failed = n]
                      ELSE With(pods \o Items(s4.world, n, "service"), LAMBDA all :
                           [s4 EXCEPT !.cache = Put(@, n, all), !.ret = all]))))

\* Pod._gather_data
GatherData(st, n) ==
    With(Json([st EXCEPT !.cache = Put(@, n, <<>>), !.fetched = Append(@, n)],
              n \in st.world),
    LAMBDA s2 :
        IF s2.err # "" THEN [s2 EXCEPT !.failed = n]
        ELSE [s2 EXCEPT !.hostname = Put(@, n, "worker"),
                        !.cache = Put(@, n, Items(s2.world, n, "container"))])

\* Pod.children
PodChildren(st, n) ==
    IF n \in DOMAIN st.cache THEN [st EXCEPT !.ret = st.cache[n]]
    ELSE With(GatherData(st, n), LAMBDA s1 :
         IF s1.err # "" THEN s1 ELSE [s1 EXCEPT !.ret = s1.cache[n]])

\* Mutant of children: containers and services ask the backend as well
ChildrenLeafAsks(st, n) ==
    With([st EXCEPT !.reads = Append(@, n)], LAMBDA s0 :
        CASE Kind(n) = "cluster" -> ClusterChildren(s0, n)
          [] Kind(n) = "namespace" -> NamespaceChildren(s0, n)
          [] Kind(n) = "pod" -> PodChildren(s0, n)
          [] Kind(n) \in {"container", "service"} ->
                With(Json([s0 EXCEPT !.fetched = Append(@, n)], TRUE), LAMBDA s1 :
                    IF s1.err # "" THEN s1 ELSE [s1 EXCEPT !.ret = <<>>])
          [] OTHER -> [s0 EXCEPT !.err = "NotImplementedError"])

\* <node>.children, by class; the base KubeObject raises NotImplementedError
Children(st, n) ==
    With([st EXCEPT !.reads = Append(@, n)], LAMBDA s0 :
        CASE Kind(n) = "cluster" -> ClusterChildren(s0, n)
          [] Kind(n) = "namespace" -> NamespaceChildren(s0, n)
          [] Kind(n) = "pod" -> PodChildren(s0, n)
          [] Kind(n) \in {"container", "service"} -> [s0 EXCEPT !.ret = <<>>]
          [] OTHER -> [s0 EXCEPT !.err = "NotImplementedError"])

\* <node>.refresh(), by class
Refresh(st, n) ==
    CASE Kind(n) \in {"cluster", "namespace"} ->
            [st EXCEPT !.cache = Without(@, {m \in DOMAIN @ : IsPrefix(n, m)}),
                       !.hostname = Without(@, {m \in DOMAIN @ : Below(n, m)})]
      [] Kind(n) = "pod" ->
            [st EXCEPT !.cache = Without(@, {n}), !.hostname = Without(@, {n})]
      [] Kind(n) \in {"container", "service"} -> st
      [] OTHER -> [st EXCEPT !.err = "NotImplementedError"]

Raise(st, e) == [st EXCEPT !.err = e]

\* --------------------------------------------------------- KubeObject.cd

\* The scan of self.children: the first child whose fragment is the input or,
\* followed by "/", a prefix of it
RECURSIVE CdScanExactOnly(_, _, _)
RECURSIVE CdScan(_, _, _)
RECURSIVE CdScanKeepsVal(_, _, _)
\* Mutant of the scan: a child is taken only when its fragment is the input
CdScanExactOnly(st, els, val) ==
    IF els = <<>> THEN [Raise(st, "k8shError") EXCEPT !.msg = "Could not find"]
    ELSE IF val = PathFragment(Head(els))
         THEN [st EXCEPT !.node = Head(els), !.val = <<>>]
    ELSE CdScanExactOnly(st, Tail(els), val)

\* Mutant of the scan: a prefix match hands the input on as it is
CdScanKeepsVal(st, els, val) ==
    IF els = <<>> THEN [Raise(st, "k8shError") EXCEPT !.msg = "Could not find"]
    ELSE With(PathFragment(Head(els)), LAMBDA frag :
         IF val = frag THEN [st EXCEPT !.node = Head(els), !.val = <<>>]
         ELSE IF StartsWith(val, frag \o SLASH)
              THEN [st EXCEPT !.node = Head(els), !.val = val]
         ELSE CdScanKeepsVal(st, Tail(els), val))

CdScan(st, els, val) ==
    IF els = <<>> THEN [Raise(st, "k8shError") EXCEPT !.msg = "Could not find"]
    ELSE With(PathFragment(Head(els)), LAMBDA frag :
         IF val = frag THEN [st EXCEPT !.node = Head(els), !.val = <<>>]
         ELSE IF StartsWith(val, frag \o SLASH)
              THEN [st EXCEPT !.node = Head(els),
                              !.val = ReplaceAll(val, frag \o SLASH)]
         ELSE CdScan(st, Tail(els), val))

\* Mutant of KubeObject.cd: ".." is refused on an object without a parent
ObjCdNoAbsorb(st, n, val) ==
    IF StartsWith(val, SLASH) THEN [st EXCEPT !.node = RootOf(n), !.val = Drop(val, 1)]
    ELSE IF val = DOTDOT \/ StartsWith(val, DOTDOTSLASH)
         THEN IF Parent(n) = None THEN Raise(st, "k8shError")
              ELSE [st EXCEPT !.node = Parent(n), !.val = Drop(val, 3)]
    ELSE With(Children(st, n), LAMBDA s1 :
         IF s1.err # "" THEN s1 ELSE CdScan(s1, s1.ret, val))

\* Mutant of KubeObject.cd: "../<rest>" on an object without a parent goes on
\* with <rest> on that object
ObjCdRootAbsorbs(st, n, val) ==
    IF StartsWith(val, SLASH) THEN [st EXCEPT !.node = RootOf(n), !.val = Drop(val, 1)]
    ELSE IF val = DOTDOT
         THEN [st EXCEPT !.node = IF Parent(n) = None THEN n ELSE Parent(n),
                         !.val = <<>>]
    ELSE IF StartsWith(val, DOTDOTSLASH)
         THEN [st EXCEPT !.node = IF Parent(n) = None THEN n ELSE Parent(n),
                         !.val = Drop(val, 3)]
    ELSE With(Children(st, n), LAMBDA s1 :
         IF s1.err # "" THEN s1 ELSE CdScan(s1, s1.ret, val))

\* Mutant of KubeObject.cd: a leading "/" is dropped where the object is
ObjCdNoRoot(st, n, val) ==
    IF StartsWith(val, SLASH) THEN [st EXCEPT !.node = n, !.val = Drop(val, 1)]
    ELSE IF val = DOTDOT
         THEN [st EXCEPT !.node = IF Parent(n) = None THEN n ELSE Parent(n),
                         !.val = <<>>]
    ELSE IF StartsWith(val, DOTDOTSLASH)
         THEN IF Parent(n) = None THEN Raise(st, "k8shError")
              ELSE [st EXCEPT !.node = Parent(n), !.val = Drop(val, 3)]
    ELSE With(Children(st, n), LAMBDA s1 :
         IF s1.err # "" THEN s1 ELSE CdScan(s1, s1.ret, val))

\* Mutant of KubeObject.cd: the object is refreshed before its children are
\* gone through
ObjCdRefreshing(st, n, val) ==
    IF StartsWith(val, SLASH) THEN [st EXCEPT !.node = RootOf(n), !.val = Drop(val, 1)]
    ELSE IF val = DOTDOT
         THEN [st EXCEPT !.node = IF Parent(n) = None THEN n ELSE Parent(n),
                         !.val = <<>>]
    ELSE IF StartsWith(val, DOTDOTSLASH)
         THEN IF Parent(n) = None THEN Raise(st, "k8shError")
              ELSE [st EXCEPT !.node = Parent(n), !.val = Drop(val, 3)]
    ELSE With(Children(Refresh(st, n), n), LAMBDA s1 :
         IF s1.err # "" THEN s1 ELSE CdScan(s1, s1.ret, val))

\* Mutant of cd: ".." on the object without parent gives the placeholder
ObjCdToPlaceholder(st, n, val) ==
    IF StartsWith(val, SLASH) THEN [st EXCEPT !.node = RootOf(n), !.val = Drop(val, 1)]
    ELSE IF val = DOTDOT
         THEN [st EXCEPT !.node = IF Parent(n) = None THEN Sentinel ELSE Parent(n),
                         !.val = <<>>]
    ELSE IF StartsWith(val, DOTDOTSLASH)
         THEN IF Parent(n) = None THEN Raise(st, "k8shError")
              ELSE [st EXCEPT !.node = Parent(n), !.val = Drop(val, 3)]
    ELSE With(Children(st, n), LAMBDA s1 :
         IF s1.err # "" THEN s1 ELSE CdScan(s1, s1.ret, val))

\* KubeObject.cd: one resolution step, (next node, residual) in node and val
ObjCd(st, n, val) ==
    IF StartsWith(val, SLASH) THEN [st EXCEPT !.node = RootOf(n), !.val = Drop(val, 1)]
    ELSE IF val = DOTDOT
         THEN [st EXCEPT !.node = IF Parent(n) = None THEN n ELSE Parent(n),
                         !.val = <<>>]
    ELSE IF StartsWith(val, DOTDOTSLASH)
         THEN IF Parent(n) = None THEN Raise(st, "k8shError")
              ELSE [st EXCEPT !.node = Parent(n), !.val = Drop(val, 3)]
    ELSE With(Children(st, n), LAMBDA s1 :
         IF s1.err # "" THEN s1 ELSE CdScan(s1, s1.ret, val))

\* ------------------------------------------------------------- KubeCmd

\* Mutant of _check_current: the kind of the current node is not compared
CheckCurrentAnyKind(st, cur, desired_type) ==
    IF Kind(cur) = "" THEN [Raise(st, "k8shError") EXCEPT !.msg = "Please select"]
    ELSE st

\* KubeCmd._check_current
CheckCurrent(st, cur, desired_type) ==
    IF Kind(cur) = "" THEN [Raise(st, "k8shError") EXCEPT !.msg = "Please select"]
    ELSE IF desired_type # "" /\ Kind(cur) # desired_type
         THEN [Raise(st, "k8shError") EXCEPT !.msg = "Invalid context"]
    ELSE st

\* The resolution loop of KubeCmd.cd; each step is recorded in steps
RECURSIVE CdLoop(_, _, _)
CdLoop(st, next_element, val) ==
    IF val = <<>> THEN [st EXCEPT !.node = next_element]
    ELSE With(ObjCd(st, next_element, val), LAMBDA s1 :
         With([s1 EXCEPT !.steps = Append(@,
                   [at |-> next_element, val |-> val, err |-> s1.err # "",
                    to |-> s1.node, residual |-> s1.val])],
         LAMBDA s2 :
             IF s1.err # "" THEN s2 ELSE CdLoop(s2, s1.node, s1.val)))

\* Mutant of KubeCmd.cd: self.current is assigned at every step of the loop
NavCdEager(st, cur, val) ==
    With(CheckCurrent(st, cur, ""), LAMBDA s0 :
        IF s0.err # "" THEN [s0 EXCEPT !.node = cur]
        ELSE IF val = <<>> THEN [s0 EXCEPT !.node = RootOf(cur)]
        ELSE With(CdLoop(s0, cur, val), LAMBDA s1 :
             IF s1.err # "" THEN [s1 EXCEPT !.node = s1.steps[Len(s1.steps)].at]
             ELSE s1))

\* Mutant of KubeCmd.cd: without a path, current moves up one level only
NavCdOneUp(st, cur, val) ==
    With(CheckCurrent(st, cur, ""), LAMBDA s0 :
        IF s0.err # "" THEN [s0 EXCEPT !.node = cur]
        ELSE IF val = <<>>
             THEN [s0 EXCEPT !.node = IF Parent(cur) = None THEN cur ELSE Parent(cur)]
        ELSE With(CdLoop(s0, cur, val), LAMBDA s1 :
             IF s1.err # "" THEN [s1 EXCEPT !.node = cur] ELSE s1))

\* KubeCmd.cd: node is the value of self.current when the call ends
NavCd(st, cur, val) ==
    With(CheckCurrent(st, cur, ""), LAMBDA s0 :
        IF s0.err # "" THEN [s0 EXCEPT !.node = cur]
        ELSE IF val = <<>> THEN [s0 EXCEPT !.node = RootOf(cur)]
        ELSE With(CdLoop(s0, cur, val), LAMBDA s1 :
             IF s1.err # "" THEN [s1 EXCEPT !.node = cur] ELSE s1))

\* text.rsplit("/", 1) of a text that holds a "/": what is before the last
\* "/" and what is after it
RSplitBase(text) == Join(SubSeq(Split(text), 1, Len(Split(text)) - 1))
RSplitRest(text) == Split(text)[Len(Split(text))]

\* complete_cd: the base to cd to, "" for none
CompleteBase(text) ==
    IF text = DOTDOT THEN DOTDOT
    ELSE IF \E i \in DOMAIN text : text[i] = "/"
         THEN IF RSplitBase(text) = <<>> THEN SLASH ELSE RSplitBase(text)
    ELSE <<>>

\* complete_cd: the text the fragments must start with
CompleteToSuggest(text) ==
    IF text = DOTDOT THEN Drop(text, 3)
    ELSE IF \E i \in DOMAIN text : text[i] = "/" THEN RSplitRest(text)
    ELSE text

\* The suggestions of complete_cd over the children of the base
Suggestions(base, children, to_suggest) ==
    With(SelectSeq(children, LAMBDA c : StartsWith(PathFragment(c), to_suggest)),
    LAMBDA kept :
        [i \in DOMAIN kept |-> OsPathJoin(<<base, PathFragment(kept[i])>>)])

\* What complete_cd returns after the cd to the base: a k8shError gives no
\* suggestion, and current becomes back
CompleteFrom(s1, base, to_suggest, back) ==
    IF s1.err # "" THEN [s1 EXCEPT !.err = "", !.ret = <<>>, !.node = back]
    ELSE With(Children(s1, s1.node), LAMBDA s2 :
         IF s2.err = "k8shError" THEN [s2 EXCEPT !.err = "", !.ret = <<>>, !.node = back]
         ELSE IF s2.err # "" THEN [s2 EXCEPT !.ret = <<>>, !.node = back]
         ELSE [s2 EXCEPT !.ret = Suggestions(base, s2.ret, to_suggest),
                         !.node = back])

\* Mutant of complete_cd: current is not set back after the cd to the base
NavCompleteCdNoFinally(st, cur, text) ==
    With(CheckCurrent(st, cur, ""), LAMBDA s0 :
        IF s0.err # "" THEN [s0 EXCEPT !.err = "", !.ret = <<>>, !.node = cur]
        ELSE IF text = <<>>
             THEN With(Children(s0, cur), LAMBDA s1 :
                  IF s1.err # "" THEN [s1 EXCEPT !.ret = <<>>, !.node = cur]
                  ELSE [s1 EXCEPT !.ret = [i \in DOMAIN s1.ret |-> PathFragment(s1.ret[i])],
                                  !.node = cur])
        ELSE With(IF CompleteBase(text) # <<>> THEN NavCd(s0, cur, CompleteBase(text))
                  ELSE [s0 EXCEPT !.node = cur],
             LAMBDA s1 :
                 CompleteFrom(s1, CompleteBase(text), CompleteToSuggest(text), s1.node)))

\* KubeCmd.complete_cd: ret is the list of suggestions, node the value of
\* self.current when the call ends
NavCompleteCd(st, cur, text) ==
    With(CheckCurrent(st, cur, ""), LAMBDA s0 :
        IF s0.err # "" THEN [s0 EXCEPT !.err = "", !.ret = <<>>, !.node = cur]
        ELSE IF text = <<>>
             THEN With(Children(s0, cur), LAMBDA s1 :
                  IF s1.err # "" THEN [s1 EXCEPT !.ret = <<>>, !.node = cur]
                  ELSE [s1 EXCEPT !.ret = [i \in DOMAIN s1.ret |-> PathFragment(s1.ret[i])],
                                  !.node = cur])
        ELSE With(IF CompleteBase(text) # <<>> THEN NavCd(s0, cur, CompleteBase(text))
                  ELSE [s0 EXCEPT !.node = cur],
             LAMBDA s1 :
                 CompleteFrom(s1, CompleteBase(text), CompleteToSuggest(text), cur)))

\* One segment of ls over the candidates ptr; the matches end in ret
RECURSIVE LsEachDedup(_, _, _, _)
RECURSIVE LsEachRootStays(_, _, _, _)
RECURSIVE LsEach(_, _, _, _)
\* Mutant of the loop over the pointers: ".." keeps a pointer without parent
LsEachRootStays(st, ptr, part, matches) ==
    IF ptr = <<>> \/ st.err # "" THEN [st EXCEPT !.ret = matches]
    ELSE IF part = DOTDOT
         THEN LsEachRootStays(st, Tail(ptr), part,
                     IF Parent(Head(ptr)) # None
                     THEN Append(matches, Parent(Head(ptr)))
                     ELSE Append(matches, Head(ptr)))
    ELSE With(Children(IF part = <<>> THEN st ELSE [st EXCEPT !.counter = @ + 1],
                       Head(ptr)),
         LAMBDA s1 :
             LsEachRootStays(s1, Tail(ptr), part,
                    IF s1.err # "" THEN matches
                    ELSE IF part = <<>> THEN matches \o s1.ret
                    ELSE matches \o SelectSeq(s1.ret, LAMBDA c : Match(c, part))))

\* Mutant of the loop over the pointers: a parent already found is not added
LsEachDedup(st, ptr, part, matches) ==
    IF ptr = <<>> \/ st.err # "" THEN [st EXCEPT !.ret = matches]
    ELSE IF part = DOTDOT
         THEN LsEachDedup(st, Tail(ptr), part,
                     IF Parent(Head(ptr)) # None
                        /\ \A i \in DOMAIN matches : matches[i] # Parent(Head(ptr))
                     THEN Append(matches, Parent(Head(ptr))) ELSE matches)
    ELSE With(Children(IF part = <<>> THEN st ELSE [st EXCEPT !.counter = @ + 1],
                       Head(ptr)),
         LAMBDA s1 :
             LsEachDedup(s1, Tail(ptr), part,
                    IF s1.err # "" THEN matches
                    ELSE IF part = <<>> THEN matches \o s1.ret
                    ELSE matches \o SelectSeq(s1.ret, LAMBDA c : Match(c, part))))

LsEach(st, ptr, part, matches) ==
    IF ptr = <<>> \/ st.err # "" THEN [st EXCEPT !.ret = matches]
    ELSE IF part = DOTDOT
         THEN LsEach(st, Tail(ptr), part,
                     IF Parent(Head(ptr)) # None
                     THEN Append(matches, Parent(Head(ptr))) ELSE matches)
    ELSE With(Children(IF part = <<>> THEN st ELSE [st EXCEPT !.counter = @ + 1],
                       Head(ptr)),
         LAMBDA s1 :
             LsEach(s1, Tail(ptr), part,
                    IF s1.err # "" THEN matches
                    ELSE IF part = <<>> THEN matches \o s1.ret
                    ELSE matches \o SelectSeq(s1.ret, LAMBDA c : Match(c, part))))

\* Mutant of the loop of KubeCmd.ls: the counter is never compared
RECURSIVE LsPartsNoGuard(_, _, _, _)
LsPartsNoGuard(st, ptr, parts, limit) ==
    IF parts = <<>> THEN [st EXCEPT !.ret = ptr]
    ELSE With(LsEach(st, ptr, Head(parts), <<>>), LAMBDA s1 :
         With([s1 EXCEPT !.segs = Append(@,
                   [part |-> Head(parts), cands |-> Len(ptr),
                    matches |-> Len(s1.ret), counter |-> s1.counter,
                    reads |-> Len(s1.reads)])],
         LAMBDA s2 :
             IF s1.err # "" THEN [s1 EXCEPT !.ret = <<>>]
             ELSE IF s1.ret = <<>> THEN s2
             ELSE LsPartsNoGuard(s2, s1.ret, Tail(parts), limit)))

\* Mutant of the loop of KubeCmd.ls: a part without matches does not end it
RECURSIVE LsPartsNoStop(_, _, _, _)
LsPartsNoStop(st, ptr, parts, limit) ==
    IF parts = <<>> THEN [st EXCEPT !.ret = ptr]
    ELSE With(LsEach(st, ptr, Head(parts), <<>>), LAMBDA s1 :
         With([s1 EXCEPT !.segs = Append(@,
                   [part |-> Head(parts), cands |-> Len(ptr),
                    matches |-> Len(s1.ret), counter |-> s1.counter,
                    reads |-> Len(s1.reads)])],
         LAMBDA s2 :
             IF s1.err # "" THEN [s1 EXCEPT !.ret = <<>>]
             ELSE IF s1.counter > limit THEN [s2 EXCEPT !.ret = <<>>]
             ELSE LsPartsNoStop(s2, s1.ret, Tail(parts), limit)))

\* The loop of KubeCmd.ls over the parts of the pattern; each part that was
\* evaluated to its end is recorded in segs
RECURSIVE LsParts(_, _, _, _)
LsParts(st, ptr, parts, limit) ==
    IF parts = <<>> THEN [st EXCEPT !.ret = ptr]
    ELSE With(LsEach(st, ptr, Head(parts), <<>>), LAMBDA s1 :
         With([s1 EXCEPT !.segs = Append(@,
                   [part |-> Head(parts), cands |-> Len(ptr),
                    matches |-> Len(s1.ret), counter |-> s1.counter,
                    reads |-> Len(s1.reads)])],
         LAMBDA s2 :
             IF s1.err # "" THEN [s1 EXCEPT !.ret = <<>>]
             ELSE IF s1.ret = <<>> THEN s2
             ELSE IF s1.counter > limit THEN [s2 EXCEPT !.ret = <<>>]
             ELSE LsParts(s2, s1.ret, Tail(parts), limit)))

\* KubeCmd.ls: the listed nodes end in ret
NavLs(st, cur, args, limit) ==
    With(CheckCurrent(st, cur, ""), LAMBDA s0 :
        IF s0.err # "" THEN [s0 EXCEPT !.ret = <<>>]
        ELSE With([s0 EXCEPT !.counter = 0, !.segs = <<>>], LAMBDA s1 :
             IF args = <<>>
             THEN With(Children(s1, cur), LAMBDA s2 :
                  IF s2.err # "" THEN [s2 EXCEPT !.ret = <<>>] ELSE s2)
             ELSE LsParts(s1, <<cur>>, Split(args), limit)))

\* KubeObject.delete: a privileged delete call; the backend also answers with
\* a non-zero status for an object it does not hold
Delete(st, obj) ==
    IF ~IsDeletable(obj) THEN Raise(st, "k8shError")
    ELSE With([Run(st) EXCEPT !.deleted = Append(@, obj)], LAMBDA s1 :
         IF RunFailed(s1) \/ obj \notin s1.world THEN Raise(s1, "k8shError")
         ELSE [s1 EXCEPT !.world = {m \in @ : ~IsPrefix(obj, m)}])

\* do_rm: an object can be removed when its parent is a cluster or a namespace
Removable(obj) ==
    ~(Parent(obj) = None \/ Kind(Parent(obj)) \notin {"cluster", "namespace"})

\* do_rm, first loop: the arguments are listed and the removable matches kept
RECURSIVE RmCollect(_, _, _, _)
RmCollect(st, cur, arg_list, limit) ==
    IF arg_list = <<>> \/ st.err # "" THEN st
    ELSE With(IF Head(arg_list) \in {<<"*">>, <<"-", "i">>}
              THEN [st EXCEPT !.interactive = TRUE] ELSE st,
         LAMBDA s0 :
             IF Head(arg_list) = <<"-", "i">>
             THEN RmCollect(s0, cur, Tail(arg_list), limit)
             ELSE With(NavLs(s0, cur, Head(arg_list), limit), LAMBDA s1 :
                  IF s1.err # "" THEN s1
                  ELSE RmCollect(
                           [s1 EXCEPT !.to_delete = @ \o SelectSeq(s1.ret, Removable)],
                           cur, Tail(arg_list), limit)))

\* do_rm, second loop: object i is skipped when asked about and answered no
RECURSIVE RmDelete(_, _, _, _)
RmDelete(st, i, ask, no) ==
    IF i > Len(st.to_delete) \/ st.err # "" THEN st
    ELSE IF ask /\ i \in no THEN RmDelete(st, i + 1, ask, no)
    ELSE With(Delete(st, st.to_delete[i]), LAMBDA s1 : RmDelete(s1, i + 1, ask, no))

\* Mutant of do_rm: the refresh is the last statement of the try block
NavRmNoFinally(st, cur, arg_list, no, limit) ==
    With(CheckCurrent(st, cur, ""), LAMBDA s0 :
        IF s0.err # "" THEN s0
        ELSE With(RmCollect(s0, cur, arg_list, limit), LAMBDA s1 :
             IF s1.err # "" THEN s1
             ELSE With(RmDelete(s1, 1, s1.interactive /\ Len(s1.to_delete) > 1, no),
                  LAMBDA s2 : IF s2.err # "" THEN s2 ELSE Refresh(s2, cur))))

\* do_rm: try, except k8shError, finally self.current.refresh()
NavRm(st, cur, arg_list, no, limit) ==
    With(CheckCurrent(st, cur, ""), LAMBDA s0 :
        IF s0.err # "" THEN Refresh(s0, cur)
        ELSE With(RmCollect(s0, cur, arg_list, limit), LAMBDA s1 :
             IF s1.err # "" THEN Refresh(s1, cur)
             ELSE With(RmDelete(s1, 1, s1.interactive /\ Len(s1.to_delete) > 1, no),
                  LAMBDA s2 : Refresh(s2, cur))))

\* --------------------------------------------- actions on the current node

\* RemoteCommand.run / run_sync: one command sent out, on the worker of the
\* container or, through Kubectl, on the kubectl host
Call(st, what) == [Run(st) EXCEPT !.issued = Append(@, what)]

\* The operator interrupts during this call
Interrupted(st) == st.calls = st.intAt

\* RemoteCommand.run, whose non-zero status the caller turns into a k8shError;
\* subprocess.run lets a KeyboardInterrupt through
CallOrRaise(st, what) ==
    With(Call(st, what), LAMBDA s1 :
        IF Interrupted(s1) THEN Raise(s1, "KeyboardInterrupt")
        ELSE IF RunFailed(s1) THEN Raise(s1, "k8shError") ELSE s1)

\* Mutant of run_sync: the status of the terminated process is returned
RunSyncKeepsStatus(st, what) ==
    With(Call(st, what), LAMBDA s1 :
        IF Interrupted(s1)
        THEN [s1 EXCEPT !.terminated = Append(@, what), !.rc = 1]
        ELSE [s1 EXCEPT !.rc = IF RunFailed(s1) THEN 1 ELSE 0])

\* RemoteCommand.run_sync: the status of the process, and 0 when the operator
\* interrupted it, the process then being terminated
RunSync(st, what) ==
    With(Call(st, what), LAMBDA s1 :
        IF Interrupted(s1)
        THEN [s1 EXCEPT !.terminated = Append(@, what), !.rc = 0]
        ELSE [s1 EXCEPT !.rc = IF RunFailed(s1) THEN 1 ELSE 0])

\* A run_sync whose non-zero status the caller turns into a k8shError
SyncOrRaise(st, what) ==
    With(RunSync(st, what), LAMBDA s1 :
        IF s1.rc # 0 THEN Raise(s1, "k8shError") ELSE s1)

\* Container.ps
Ps(st, n) == SyncOrRaise(st, "docker top")

\* Container.nsenter: the pid of the container is looked up first
Nsenter(st, n) ==
    With(CallOrRaise(st, "docker inspect"), LAMBDA s1 :
        IF s1.err # "" THEN s1 ELSE SyncOrRaise(s1, "nsenter"))

\* Container.rootexec
RootExec(st, n) == SyncOrRaise(st, "docker exec")

\* A name as one string
RECURSIVE Str(_)
Str(s) == IF s = <<>> THEN "" ELSE Head(s) \o Str(Tail(s))

\* The Kubectl of an object: the cluster's has the namespace "admin", each
\* namespace has one of its own name, and pods, services and containers are
\* built with the one of their namespace; the placeholder's has empty names
KubectlOf(n) ==
    [cluster |-> IF Kind(n) = "" THEN "" ELSE Str(Name(RootOf(n))),
     namespace |-> IF Kind(n) = "" THEN ""
                   ELSE IF Parent(n) = None THEN "admin" ELSE Str(n[2].name)]

\* kubeconfig_fmt.format(namespace=..., cluster=...), the format as shipped
KubeconfigFmt(namespace, cluster) ==
    "KUBECONFIG=/etc/kubernetes/" \o namespace \o "-" \o cluster \o ".config"

\* Kubectl._kubeconfig
Kubeconfig(k, admin) ==
    IF admin THEN "sudo " \o KubeconfigFmt("admin", k.cluster)
    ELSE KubeconfigFmt(k.namespace, k.cluster)

\* Kubectl._kubectl: the namespace of a Kubectl of the shell is never None
KubectlCmd(k, command, admin) ==
    Kubeconfig(k, admin) \o " kubectl -n " \o k.namespace \o " " \o command

\* Container.tail
Tail_(st, n) ==
    IF Parent(n) = None THEN Raise(st, "k8shError")
    ELSE SyncOrRaise(st, KubectlCmd(KubectlOf(n),
             "logs " \o Str(Name(Parent(n))) \o " " \o Str(Name(n)), FALSE))

\* Container.exec, with admin privileges
Exec(st, n) ==
    IF Parent(n) = None THEN Raise(st, "k8shError")
    ELSE SyncOrRaise(st, KubectlCmd(KubectlOf(n),
             "exec " \o Str(Name(Parent(n))) \o " -c " \o Str(Name(n)) \o " --", TRUE))

\* Service.get
ServiceGet(st, n) ==
    Json([st EXCEPT !.issued = Append(@, "get services")], n \in st.world)

\* Mutant of eventlog: every object asks as the cluster does
EventlogAllNamespaces(st, n) ==
    SyncOrRaise(st, KubectlCmd(KubectlOf(n),
        "get events --sortBy='.metadata.creationTimestamp' -A", TRUE))

\* KubeObject.eventlog, and Cluster.eventlog: all namespaces, as admin; the
\* key to sort by is the one do_eventlog passes
Eventlog(st, n) ==
    IF Kind(n) = "cluster"
    THEN SyncOrRaise(st, KubectlCmd(KubectlOf(n),
             "get events --sortBy='.metadata.creationTimestamp' -A", TRUE))
    ELSE SyncOrRaise(st, KubectlCmd(KubectlOf(n),
             "get events --sortBy='.metadata.creationTimestamp'", FALSE))

\* Pod.hostname
Hostname(st, n) ==
    With(IF n \in DOMAIN st.hostname THEN st ELSE GatherData(st, n), LAMBDA s1 :
        IF s1.err # "" THEN s1
        ELSE IF n \notin DOMAIN s1.hostname THEN Raise(s1, "k8shError")
        ELSE [s1 EXCEPT !.ret = <<s1.hostname[n]>>])

\* do_ps
NavPs(st, cur) ==
    With(CheckCurrent(st, cur, "container"), LAMBDA s0 :
        IF s0.err # "" THEN s0 ELSE Ps(s0, cur))

\* do_tail
NavTail(st, cur) ==
    With(CheckCurrent(st, cur, "container"), LAMBDA s0 :
        IF s0.err # "" THEN s0 ELSE Tail_(s0, cur))

\* do_nsenter
NavNsenter(st, cur) ==
    With(CheckCurrent(st, cur, "container"), LAMBDA s0 :
        IF s0.err # "" THEN s0 ELSE Nsenter(s0, cur))

\* do_exec
NavExec(st, cur) ==
    With(CheckCurrent(st, cur, "container"), LAMBDA s0 :
        IF s0.err # "" THEN s0 ELSE Exec(s0, cur))

\* do_sudo
NavSudo(st, cur) ==
    With(CheckCurrent(st, cur, "container"), LAMBDA s0 :
        IF s0.err # "" THEN s0 ELSE RootExec(s0, cur))

\* do_view
NavView(st, cur) ==
    With(CheckCurrent(st, cur, "service"), LAMBDA s0 :
        IF s0.err # "" THEN s0 ELSE ServiceGet(s0, cur))

\* do_eventlog
NavEventlog(st, cur) ==
    With(CheckCurrent(st, cur, ""), LAMBDA s0 :
        IF s0.err # "" THEN s0 ELSE Eventlog(s0, cur))

\* ----------------------------------------------------------------- remote

\* Config; ssh_controlmaster_path is the path of the socket of the multiplexed
\* connection, "" when there is to be none
Config(kubectl_host, kubeconfig_format, ssh_opts, ssh_controlmaster_path) ==
    [kubectl_host |-> kubectl_host, kubeconfig_format |-> kubeconfig_format,
     ssh_opts |-> ssh_opts, ssh_controlmaster_path |-> ssh_controlmaster_path]

\* The defaults of Config: no host (commands run locally), no options
DefaultConfig ==
    Config(None, "KUBECONFIG=/etc/kubernetes/{namespace}-{cluster}.config", None, "")

HostOne == <<"h", "1">>
HostTwo == <<"h", "2">>
PathOne == "/run/k8sh-one"
PathTwo == "/run/k8sh-two"

\* The named profiles of the configuration, by cluster name: r and s differ in
\* the host, r and t in the options, r and q in the socket path only, u has
\* no socket path, and p differs from s in the options and the socket path
Profiles ==
    (<<"r">> :> Config(HostOne, "KUBECONFIG=/r/{namespace}-{cluster}", None, PathOne))
    @@ (<<"s">> :> Config(HostTwo, "KUBECONFIG=/s/{namespace}-{cluster}", None, PathOne))
    @@ (<<"t">> :> Config(HostOne, "KUBECONFIG=/r/{namespace}-{cluster}", <<"-4">>, PathOne))
    @@ (<<"q">> :> Config(HostOne, "KUBECONFIG=/r/{namespace}-{cluster}", None, PathTwo))
    @@ (<<"u">> :> Config(HostOne, "KUBECONFIG=/r/{namespace}-{cluster}", None, ""))
    @@ (<<"p">> :> Config(HostTwo, "KUBECONFIG=/s/{namespace}-{cluster}", <<"-4">>, PathTwo))

\* ConfigProfiles.get: the profile of that name, the default when none has it
ConfigGet(name) ==
    IF name \in DOMAIN Profiles THEN Profiles[name] ELSE DefaultConfig

\* RemoteCommand(host, ssh_opts, master_path): _master starts as None
RemoteCommand(host, ssh_opts, master_path) ==
    [host |-> host, ssh_opts |-> ssh_opts, master_path |-> master_path,
     _master |-> None]

\* The remote with the processes around it: rs.remote is the RemoteCommand,
\* rs.masters the running master processes, rs.log what was started and
\* terminated, in order
RemoteState(r, procs) == [remote |-> r, masters |-> procs, log |-> <<>>]

\* subprocess.Popen of the ssh master: a new process
Popen(procs, host, master_path) ==
    [pid |-> CHOOSE p \in 1..(Cardinality(procs) + 1) : \A m \in procs : m.pid # p,
     host |-> host, master_path |-> master_path]

\* RemoteCommand.open
RemoteOpen(rs) ==
    IF rs.remote.master_path = "" THEN rs
    ELSE IF rs.remote.host = None \/ rs.remote._master # None THEN rs
    ELSE [remote |-> [rs.remote EXCEPT !._master =
                         <<Popen(rs.masters, rs.remote.host, rs.remote.master_path)>>],
          masters |-> rs.masters \cup
                         {Popen(rs.masters, rs.remote.host, rs.remote.master_path)},
          log |-> Append(rs.log,
                         [ev |-> "Popen",
                          proc |-> Popen(rs.masters, rs.remote.host,
                                         rs.remote.master_path)])]

\* RemoteCommand.close
RemoteClose(rs) ==
    IF rs.remote._master = None THEN rs
    ELSE [remote |-> [rs.remote EXCEPT !._master = None],
          masters |-> rs.masters \ {rs.remote._master[1]},
          log |-> Append(rs.log, [ev |-> "terminate", proc |-> rs.remote._master[1]])]

\* Mutant of _switch_profile: the remote is replaced without being closed
SwitchProfileNoClose(rs, config) ==
    IF rs.remote.host # config.kubectl_host \/ rs.remote.ssh_opts # config.ssh_opts
    THEN RemoteOpen([rs EXCEPT !.remote =
                        RemoteCommand(config.kubectl_host, config.ssh_opts,
                                      config.ssh_controlmaster_path)])
    ELSE rs

\* KubeCmd._switch_profile, the remote
SwitchProfile(rs, config) ==
    IF rs.remote.host # config.kubectl_host \/ rs.remote.ssh_opts # config.ssh_opts
    THEN RemoteOpen([RemoteClose(rs) EXCEPT !.remote =
                        RemoteCommand(config.kubectl_host, config.ssh_opts,
                                      config.ssh_controlmaster_path)])
    ELSE rs

\* from_configfile: the remote of the default configuration, opened
FromConfigfile ==
    RemoteOpen(RemoteState(RemoteCommand(DefaultConfig.kubectl_host,
                                         DefaultConfig.ssh_opts,
                                         DefaultConfig.ssh_controlmaster_path), {}))

\* ------------------------------------------------------------------ state

VARIABLES
    world,      \* the objects the backend holds
    cache,      \* _children of every object that has one (absent: None)
    hostname,   \* _hostname of every pod that has one
    current,    \* KubeCmd.current
    ceiling,    \* shell.MAX_QUERY_LENGTH, a module attribute
    last,       \* what the command that just ran did ("": at the prompt)
    remote,     \* KubeCmd.remote
    masters,    \* the ssh master processes that are running
    kubeconfig_fmt  \* Kubectl.kubeconfig_fmt, a class attribute

vars ==
    <<world, cache, hostname, current, ceiling, last, remote, masters,
      kubeconfig_fmt>>

EmptyMap == [x \in {} |-> x]

Outcome(cmd, arg, st) ==
    [cmd |-> cmd, arg |-> arg, err |-> st.err,
     listed |-> IF cmd = "ls" THEN st.ret ELSE <<>>,
     counter |-> st.counter, segs |-> st.segs, reads |-> st.reads,
     fetched |-> st.fetched, failed |-> st.failed, deleted |-> st.deleted,
     steps |-> st.steps, calls |-> st.calls, asked |-> FALSE,
     msg |-> st.msg, issued |-> st.issued, failAt |-> st.failAt,
     to_delete |-> st.to_delete, declined |-> {},
     on |-> None, to |-> st.node, residual |-> st.val, ret |-> st.ret,
     master_log |-> <<>>, terminated |-> st.terminated]

AtPrompt == Outcome("", <<>>, Begin(EmptyMap, EmptyMap, {}, 0))

\* ----------------------------------------------------------------- inputs

sA == <<"a">>
sB == <<"b">>
sX == <<"x">>
sStar == <<"*">>
sPodA == <<"p", "o", "d", ".", "a">>
sPodStar == <<"p", "o", "d", ".", "*">>
sSvcA == <<"s", "e", "r", "v", "i", "c", "e", ".", "a">>
sDashI == <<"-", "i">>

ClusterNames == {<<"k">>}
CdSegs == {sA, sB, sPodA, DOTDOT, sX}
CdPaths ==
    {Join(segs) : segs \in UNION {[1..k -> CdSegs] : k \in 1..MaxSegs}}
        \cup {<<>>, SLASH, Join(<<sA, sPodA, sA>>), Join(<<<<>>, sA, sPodA, sA>>),
              Join(<<sA, sSvcA>>), Join(<<DOTDOT, <<>>>>)}
LsPatterns ==
    {<<>>, sStar, sX, DOTDOT, Join(<<DOTDOT, <<>>>>), Join(<<sStar, sPodStar>>),
     Join(<<sA, sPodA>>), Join(<<DOTDOT, sB, <<>>>>), Join(<<sStar, DOTDOT>>),
     Join(<<sX, sStar>>), Join(<<sStar, <<>>>>), Join(<<sStar, DOTDOT, sStar>>)}
WideClusterNames == {<<"k">>, <<"w">>}
LsWidePatterns ==
    {<<>>, sStar, SLASH, Join(<<sStar, sStar>>), Join(<<sStar, sPodStar>>),
     Join(<<sStar, DOTDOT>>), Join(<<sStar, DOTDOT, sStar>>), Join(<<sX, sStar>>),
     Join(<<sStar, sX, sStar>>), Join(<<sA, <<>>>>), sX, sA, <<"v", "*">>,
     Join(<<sA, sPodStar>>), Join(<<sA, sPodA>>), Join(<<sA, DOTDOT>>)}
RmArgLists ==
    {<<sPodA>>, <<sX>>, <<sStar>>, <<sA>>, <<Join(<<DOTDOT, sB, sPodA>>)>>,
     <<Join(<<DOTDOT, sPodA>>)>>, <<sX, sPodA>>, <<sDashI, sStar>>,
     <<Join(<<sA, sPodA>>)>>, <<Join(<<sA, sPodA, sA>>)>>}
MaxAsk == 2

\* The inputs of the commands that act on the current node, and of the
\* methods of the objects
MaxDots == 5
DotPaths == {Join([i \in 1..k |-> DOTDOT]) : k \in 1..MaxDots}
CmdCdPaths ==
    DotPaths \cup
    {<<>>, sA, sPodA, sSvcA, sX, SLASH, Join(<<sA, sPodA>>), Join(<<sA, <<>>>>),
     Join(<<<<>>, sA>>), Join(<<<<>>, sX>>), Join(<<<<>>, sA, sPodA>>),
     Join(<<<<>>, sB, sPodA>>), Join(<<<<>>, <<>>, sA>>), Join(<<DOTDOT, <<>>>>),
     Join(<<DOTDOT, sA>>), Join(<<DOTDOT, sB>>), Join(<<sB, sPodA>>),
     Join(<<DOTDOT, sX>>), Join(<<DOTDOT, DOTDOT, sA>>), Join(<<DOTDOT, DOTDOT, <<>>>>),
     Join(<<<<>>, DOTDOT, sA>>)}
CmdLsPatterns == {<<>>, sStar}
CmdRmLists ==
    {<<sPodA, sSvcA>>, <<sX, sPodA>>, <<Join(<<sPodA, sA>>), sSvcA>>, <<sStar>>}
ApiCdVals ==
    {sA, sB, sPodA, sSvcA, sX, DOTDOT, SLASH, Join(<<sA, sPodA>>),
     Join(<<sA, <<>>>>), Join(<<<<>>, sA>>), Join(<<DOTDOT, <<>>>>),
     Join(<<DOTDOT, sA>>), Join(<<DOTDOT, DOTDOT>>), Join(<<sPodA, sA>>)}

\* ---------------------------------------------------------------- actions

Init ==
    /\ world = InitialWorld
    /\ cache = EmptyMap
    /\ hostname = EmptyMap
    /\ current = Sentinel
    /\ ceiling = MAX_QUERY_LENGTH
    /\ last = AtPrompt
    /\ remote = FromConfigfile.remote
    /\ masters = FromConfigfile.masters
    /\ kubeconfig_fmt = DefaultConfig.kubeconfig_format

\* do_use: the profile of the cluster is switched to, and a new Cluster
\* object, with no cache, becomes current
UseWith(names) ==
    /\ last.cmd = ""
    /\ \E arg \in names :
        \E rs \in {SwitchProfile(RemoteState(remote, masters), ConfigGet(arg))} :
            /\ remote' = rs.remote
            /\ masters' = rs.masters
            /\ kubeconfig_fmt' = ConfigGet(arg).kubeconfig_format
            /\ cache' = EmptyMap
            /\ hostname' = EmptyMap
            /\ current' = <<Obj("cluster", arg)>>
            /\ last' = [Outcome("use", arg, Begin(EmptyMap, EmptyMap, world, 0))
                            EXCEPT !.master_log = rs.log]
            /\ UNCHANGED <<world, ceiling>>

DoUse == UseWith(ClusterNames)

\* do_cd
CdWith(paths) ==
    /\ last.cmd = ""
    /\ \E arg \in paths, failAt \in 0..MaxFail :
        \E st \in {NavCd(Begin(cache, hostname, world, failAt), current, arg)} :
            /\ failAt <= st.calls
            /\ cache' = st.cache
            /\ hostname' = st.hostname
            /\ current' = st.node
            /\ last' = [Outcome("cd", arg, st) EXCEPT !.on = current]
            /\ UNCHANGED <<world, ceiling, remote, masters, kubeconfig_fmt>>

DoCd == CdWith(CdPaths)

\* do_ls
LsWith(patterns) ==
    /\ last.cmd = ""
    /\ \E arg \in patterns, failAt \in 0..MaxFail :
        \E st \in {NavLs(Begin(cache, hostname, world, failAt), current, arg, ceiling)} :
            /\ failAt <= st.calls
            /\ cache' = st.cache
            /\ hostname' = st.hostname
            /\ last' = Outcome("ls", arg, st)
            /\ UNCHANGED <<world, current, ceiling, remote, masters, kubeconfig_fmt>>

DoLs == LsWith(LsPatterns)

\* do_rm
RmWith(arg_lists) ==
    /\ last.cmd = ""
    /\ \E arg_list \in arg_lists, failAt \in 0..MaxFail, no \in SUBSET (1..MaxAsk) :
        \E st \in {NavRm(Begin(cache, hostname, world, failAt), current, arg_list,
                         no, ceiling)} :
            /\ failAt <= st.calls
            /\ (st.interactive /\ Len(st.to_delete) > 1) \/ no = {}
            /\ world' = st.world
            /\ cache' = st.cache
            /\ hostname' = st.hostname
            /\ last' = [Outcome("rm", arg_list, st) EXCEPT
                            !.asked = st.interactive /\ Len(st.to_delete) > 1,
                            !.declined = no]
            /\ UNCHANGED <<current, ceiling, remote, masters, kubeconfig_fmt>>

DoRm == RmWith(RmArgLists)

\* postcmd: the command is over and the shell is at its prompt again
PostCmd ==
    /\ last.cmd # ""
    /\ last' = AtPrompt
    /\ UNCHANGED <<world, cache, hostname, current, ceiling, remote, masters, kubeconfig_fmt>>

Next == DoUse \/ DoCd \/ DoLs \/ DoRm \/ PostCmd

Spec == Init /\ [][Next]_vars

\* What a command that leaves the shell and the caches alone did
Ran(cmd, st) ==
    /\ last' = Outcome(cmd, <<>>, st)
    /\ UNCHANGED <<world, cache, hostname, current, ceiling, remote, masters, kubeconfig_fmt>>

DoPs ==
    /\ last.cmd = ""
    /\ \E failAt \in 0..MaxFail, intAt \in 0..MaxFail :
        \E st \in {NavPs(BeginInt(cache, hostname, world, failAt, intAt), current)} :
            failAt <= st.calls /\ intAt <= st.calls /\ Ran("ps", st)

DoTail ==
    /\ last.cmd = ""
    /\ \E failAt \in 0..MaxFail, intAt \in 0..MaxFail :
        \E st \in {NavTail(BeginInt(cache, hostname, world, failAt, intAt), current)} :
            failAt <= st.calls /\ intAt <= st.calls /\ Ran("tail", st)

DoNsenter ==
    /\ last.cmd = ""
    /\ \E failAt \in 0..MaxFail, intAt \in 0..MaxFail :
        \E st \in {NavNsenter(BeginInt(cache, hostname, world, failAt, intAt), current)} :
            failAt <= st.calls /\ intAt <= st.calls /\ Ran("nsenter", st)

DoExec ==
    /\ last.cmd = ""
    /\ \E failAt \in 0..MaxFail, intAt \in 0..MaxFail :
        \E st \in {NavExec(BeginInt(cache, hostname, world, failAt, intAt), current)} :
            failAt <= st.calls /\ intAt <= st.calls /\ Ran("exec", st)

DoSudo ==
    /\ last.cmd = ""
    /\ \E failAt \in 0..MaxFail, intAt \in 0..MaxFail :
        \E st \in {NavSudo(BeginInt(cache, hostname, world, failAt, intAt), current)} :
            failAt <= st.calls /\ intAt <= st.calls /\ Ran("sudo", st)

DoView ==
    /\ last.cmd = ""
    /\ \E failAt \in 0..MaxFail :
        \E st \in {NavView(Begin(cache, hostname, world, failAt), current)} :
            failAt <= st.calls /\ Ran("view", st)

DoEventlog ==
    /\ last.cmd = ""
    /\ \E failAt \in 0..MaxFail, intAt \in 0..MaxFail :
        \E st \in {NavEventlog(BeginInt(cache, hostname, world, failAt, intAt), current)} :
            failAt <= st.calls /\ intAt <= st.calls /\ Ran("eventlog", st)

\* The objects of the tree current is in: its cluster and what the backend
\* holds below it
TreeNodes == {RootOf(current)} \cup {n \in world : IsPrefix(RootOf(current), n)}

\* The shell with all its commands
CmdUse == UseWith(ClusterNames)
CmdCd == CdWith(CmdCdPaths)
CmdLs == LsWith(CmdLsPatterns)
CmdRm == RmWith(CmdRmLists)
\* cd to the path of an object of the tree
CmdCdToPath == CdWith({Path(n) : n \in TreeNodes})

NextCmd ==
    \/ CmdUse \/ CmdCd \/ CmdCdToPath \/ CmdLs \/ CmdRm
    \/ DoPs \/ DoTail \/ DoNsenter \/ DoExec \/ DoSudo \/ DoView \/ DoEventlog
    \/ PostCmd

SpecCmd == Init /\ [][NextCmd]_vars

\* The objects alone, their methods called directly: the cluster object, the
\* placeholder the shell starts with, and every object a children list holds
ApiNodes == {Sentinel, ClusterK} \cup UNION {{c[i] : i \in DOMAIN c} : c \in {cache[p] : p \in DOMAIN cache}}

\* What a method called on object n did
Called(method, n, val, st) ==
    /\ world' = st.world
    /\ cache' = st.cache
    /\ hostname' = st.hostname
    /\ last' = [Outcome(method, val, st) EXCEPT !.on = n]
    /\ UNCHANGED <<current, ceiling, remote, masters, kubeconfig_fmt>>

ApiChildren ==
    /\ last.cmd = ""
    /\ \E n \in ApiNodes, failAt \in 0..MaxFail :
        \E st \in {Children(Begin(cache, hostname, world, failAt), n)} :
            failAt <= st.calls /\ Called("KubeObject.children", n, <<>>, st)

ApiHostname ==
    /\ last.cmd = ""
    /\ \E n \in {m \in ApiNodes : Kind(m) = "pod"}, failAt \in 0..MaxFail :
        \E st \in {Hostname(Begin(cache, hostname, world, failAt), n)} :
            failAt <= st.calls /\ Called("Pod.hostname", n, <<>>, st)

ApiRefresh ==
    /\ last.cmd = ""
    /\ \E n \in ApiNodes :
        \E st \in {Refresh(Begin(cache, hostname, world, 0), n)} :
            Called("KubeObject.refresh", n, <<>>, st)

ApiCd ==
    /\ last.cmd = ""
    /\ \E n \in ApiNodes, val \in ApiCdVals, failAt \in 0..MaxFail :
        \E st \in {ObjCd(Begin(cache, hostname, world, failAt), n, val)} :
            failAt <= st.calls /\ Called("KubeObject.cd", n, val, st)

ApiDelete ==
    /\ last.cmd = ""
    /\ \E n \in ApiNodes, failAt \in 0..MaxFail :
        \E st \in {Delete(Begin(cache, hostname, world, failAt), n)} :
            failAt <= st.calls /\ Called("KubeObject.delete", n, <<>>, st)

\* path: the result is in residual
ApiPath ==
    /\ last.cmd = ""
    /\ \E n \in ApiNodes :
        \E st \in {[Begin(cache, hostname, world, 0) EXCEPT !.val = Path(n)]} :
            Called("KubeObject.path", n, <<>>, st)

NextApi ==
    \/ ApiChildren \/ ApiHostname \/ ApiRefresh \/ ApiCd \/ ApiDelete \/ ApiPath
    \/ PostCmd

SpecApi == Init /\ [][NextApi]_vars

\* The ls guard: both clusters, and the ceiling at 1 (as the tests set it) or
\* at its default
InitLs ==
    /\ world = InitialWorld
    /\ cache = EmptyMap
    /\ hostname = EmptyMap
    /\ current = Sentinel
    /\ ceiling \in {1, MAX_QUERY_LENGTH}
    /\ last = AtPrompt
    /\ remote = FromConfigfile.remote
    /\ masters = FromConfigfile.masters
    /\ kubeconfig_fmt = DefaultConfig.kubeconfig_format

UseWide == UseWith(WideClusterNames)
LsWide == LsWith(LsWidePatterns)

NextLs == UseWide \/ LsWide \/ PostCmd

SpecLs == InitLs /\ [][NextLs]_vars

\* The tree under current: both clusters, selected in any order, and cd, ls
\* and rm within them
TreeCdPaths ==
    {<<>>, sA, sB, sX, DOTDOT, SLASH, Join(<<sA, sPodA>>), Join(<<sA, sPodA, sA>>),
     Join(<<DOTDOT, DOTDOT>>), Join(<<DOTDOT, sB>>), <<"v", "v">>}
TreeLsPatterns == {<<>>, sStar, DOTDOT}
TreeRmLists == {<<sPodA>>, <<sA>>, <<Join(<<DOTDOT, sA>>)>>, <<Join(<<DOTDOT, sPodA>>)>>}

TreeUse == UseWith(WideClusterNames)
TreeCd == CdWith(TreeCdPaths)
TreeLs == LsWith(TreeLsPatterns)
TreeRm == RmWith(TreeRmLists)

NextTree == TreeUse \/ TreeCd \/ TreeLs \/ TreeRm \/ PostCmd

SpecTree == Init /\ [][NextTree]_vars

\* Tab completion of cd, between cds
sPod == <<"p", "o", "d", ".">>
CompleteTexts ==
    {<<>>, DOTDOT, sA, sPod, sX, SLASH, Join(<<DOTDOT, sB>>), Join(<<DOTDOT, <<>>>>),
     Join(<<<<>>, sA>>), Join(<<sA, sPod>>), Join(<<sX, sA>>), Join(<<sPodA, <<>>>>),
     Join(<<<<>>, sA, sPod>>), Join(<<DOTDOT, DOTDOT, sA>>)}

\* complete_cd, called by the line editor
DoCompleteCd ==
    /\ last.cmd = ""
    /\ \E text \in CompleteTexts, failAt \in 0..MaxFail :
        \E st \in {NavCompleteCd(Begin(cache, hostname, world, failAt), current, text)} :
            /\ failAt <= st.calls
            /\ cache' = st.cache
            /\ hostname' = st.hostname
            /\ current' = st.node
            /\ last' = [Outcome("complete_cd", text, st) EXCEPT !.on = current]
            /\ UNCHANGED <<world, ceiling, remote, masters, kubeconfig_fmt>>

NextComplete == CmdUse \/ CmdCd \/ DoCompleteCd \/ PostCmd

SpecComplete == Init /\ [][NextComplete]_vars

\* The remote: use with every profile, and open and close called directly
ProfileNames == WideClusterNames \cup DOMAIN Profiles

UseProfile == UseWith(ProfileNames)

\* What a method called on the remote did
CalledRemote(method, rs) ==
    /\ remote' = rs.remote
    /\ masters' = rs.masters
    /\ last' = [Outcome(method, <<>>, Begin(EmptyMap, EmptyMap, world, 0))
                    EXCEPT !.master_log = rs.log]
    /\ UNCHANGED <<world, cache, hostname, current, ceiling, kubeconfig_fmt>>

ApiRemoteOpen ==
    /\ last.cmd = ""
    /\ CalledRemote("RemoteCommand.open", RemoteOpen(RemoteState(remote, masters)))

ApiRemoteClose ==
    /\ last.cmd = ""
    /\ CalledRemote("RemoteCommand.close", RemoteClose(RemoteState(remote, masters)))

NextRemote == UseProfile \/ ApiRemoteOpen \/ ApiRemoteClose \/ PostCmd

SpecRemote == Init /\ [][NextRemote]_vars

\* ------------------------------------------------------------- properties

Range(s) == {s[i] : i \in DOMAIN s}
Count(s, x) == Cardinality({i \in DOMAIN s : s[i] = x})
Cached(n) == Kind(n) \in {"cluster", "namespace", "pod"}

\* What a fetch of n that runs to its end stores, the backend holding w
FullList(w, n) ==
    CASE Kind(n) = "cluster" -> Items(w, n, "namespace")
      [] Kind(n) = "namespace" -> Items(w, n, "pod") \o Items(w, n, "service")
      [] OTHER -> Items(w, n, "container")

\* The candidates the literal and glob parts of an ls were evaluated against
RECURSIVE Evaluations(_)
Evaluations(segs) ==
    IF segs = <<>> THEN 0
    ELSE (IF Head(segs).part \in {<<>>, DOTDOT} THEN 0 ELSE Head(segs).cands)
         + Evaluations(Tail(segs))

\* C1: a cd with a non-empty path that fails at any step leaves current the
\* node it was; current becomes another node only when every step succeeded,
\* and then it is the node the last step returned with an empty residual.
C1_CdAllOrNothing ==
    [][(last'.cmd = "cd" /\ last'.arg # <<>>) =>
          IF last'.err # "" THEN current' = current
          ELSE /\ last'.steps # <<>>
               /\ \A i \in DOMAIN last'.steps : ~last'.steps[i].err
               /\ last'.steps[Len(last'.steps)].residual = <<>>
               /\ current' = last'.steps[Len(last'.steps)].to]_vars

\* A cd failed after at least one step of its path had succeeded.
C1_Witness ==
    /\ last.cmd = "cd"
    /\ last.err # ""
    /\ Len(last.steps) >= 2
    /\ last.steps[1].to # current

\* C2: after a command in which the fetch of a node's children failed, that
\* node's children cache is absent.
C2_FailedFetchLeavesNoCache ==
    last.failed # None => last.failed \notin DOMAIN cache

\* C3: a children cache that comes into being holds the complete list of a
\* fetch that ran to its end, never a part of it.
C3_CacheNeverPartial ==
    [][\A n \in DOMAIN cache' :
          n \notin DOMAIN cache => cache'[n] = FullList(world, n)]_vars

\* C4: in every command, a node whose children are accessed is fetched once
\* (at its first access) when it had no cache and not at all when it had one,
\* however often it is accessed; a cd or ls that accesses only cached nodes
\* issues no backend call.
C4_FetchOncePerInvalidation ==
    [][last'.cmd \in {"cd", "ls", "rm"} =>
          /\ \A n \in Range(last'.reads) :
                Cached(n) =>
                    Count(last'.fetched, n) = IF n \in DOMAIN cache THEN 0 ELSE 1
          /\ (last'.cmd # "rm" /\ Range(last'.reads) \subseteq DOMAIN cache)
                => last'.calls = 0]_vars

\* One command accessed the children of a node twice and fetched them once.
C4_Witness ==
    \E n \in Range(last.reads) :
        /\ Count(last.reads, n) >= 2
        /\ Count(last.fetched, n) = 1
        /\ last.err = ""

\* C5: a step of cd that returns a child whose fragment, followed by "/", is
\* a prefix of the input returns as residual the input without that prefix.
C5_PrefixStrippedOnce ==
    last.cmd = "cd" =>
        \A i \in DOMAIN last.steps :
            (/\ ~last.steps[i].err
             /\ Parent(last.steps[i].to) = last.steps[i].at
             /\ StartsWith(last.steps[i].val, PathFragment(last.steps[i].to) \o SLASH))
            => last.steps[i].residual
                   = Drop(last.steps[i].val, Len(PathFragment(last.steps[i].to)) + 1)

\* C6: the counter of an ls is the number of (candidate, literal or glob part)
\* evaluations; once it exceeds the ceiling after a part, the result is empty,
\* so a non-empty result has a counter within the ceiling; with the ceiling at
\* 1, "*/pod.*" over two namespaces lists nothing.
C6_LsQueryGuard ==
    (last.cmd = "ls" /\ last.arg # <<>> /\ last.err = "") =>
        /\ last.counter = Evaluations(last.segs)
        /\ (\E i \in DOMAIN last.segs : last.segs[i].counter > ceiling)
               => last.listed = <<>>
        /\ last.listed # <<>> => last.counter <= ceiling
        /\ (/\ ceiling = 1
            /\ last.arg = Join(<<sStar, sPodStar>>)
            /\ last.segs[1].matches >= 2) => last.listed = <<>>

\* With the ceiling at 1, "*/pod.*" matched pods of two namespaces and the
\* guard emptied the result.
C6_Witness ==
    /\ last.cmd = "ls"
    /\ last.err = ""
    /\ ceiling = 1
    /\ last.arg = Join(<<sStar, sPodStar>>)
    /\ Len(last.segs) = 2
    /\ last.segs[1].matches = 2
    /\ last.segs[2].matches > 0
    /\ last.counter = 3
    /\ last.listed = <<>>

\* C7: with the ceiling at its default, one ls reads the children of at most
\* ceiling nodes.
C7_LsReadsWithinCeiling ==
    (last.cmd = "ls" /\ ceiling = MAX_QUERY_LENGTH) =>
        Cardinality(Range(last.reads)) <= MAX_QUERY_LENGTH

\* C8: the part of an ls pattern that has no match is the last one evaluated:
\* the result is empty and no children are accessed after it.
C8_LsShortCircuit ==
    (last.cmd = "ls" /\ last.arg # <<>> /\ last.err = "") =>
        \A i \in DOMAIN last.segs :
            last.segs[i].matches = 0 =>
                /\ i = Len(last.segs)
                /\ last.listed = <<>>
                /\ last.segs[i].reads = Len(last.reads)

\* An ls stopped at a part without matches that was not the last of its
\* pattern, after it had read children.
C8_Witness ==
    /\ last.cmd = "ls"
    /\ last.err = ""
    /\ last.segs # <<>>
    /\ Len(last.segs) < Len(Split(last.arg))
    /\ last.segs[Len(last.segs)].matches = 0
    /\ last.reads # <<>>

\* C9: when rm has returned, a current Cluster, Namespace or Pod has no
\* children cache (and a Pod no hostname), whatever the outcome of the rm;
\* with no cluster selected the refresh applied is the one of the base class,
\* which raises.
C9_RmRefreshesCurrent ==
    /\ (last.cmd = "rm" /\ Cached(current)) =>
            /\ current \notin DOMAIN cache
            /\ current \notin DOMAIN hostname
    /\ (last.cmd = "rm" /\ current = Sentinel) => last.err = "NotImplementedError"

\* An rm fetched the children of current, then failed.
C9_Witness ==
    /\ last.cmd = "rm"
    /\ last.err = "k8shError"
    /\ current \in Range(last.fetched)
    /\ last.deleted # <<>>

\* C10: an ls lists no object the backend no longer holds.
C10_LsNeverListsDeleted ==
    last.cmd = "ls" =>
        \A i \in DOMAIN last.listed :
            Parent(last.listed[i]) = None \/ last.listed[i] \in world


\* C11: an rm whose listing of the arguments went through issues a delete
\* call for every removable object the arguments matched (but those the
\* operator declined), also after the delete call of an earlier one failed.
C11_RmContinuesPastFailures ==
    (last.cmd = "rm" /\ last.msg = "" /\ last.failed = None) =>
        \A i \in DOMAIN last.to_delete :
            \/ last.asked /\ i \in last.declined
            \/ last.to_delete[i] \in Range(last.deleted)

\* C12: every delete call sent to the backend, by an rm or by a delete()
\* called on an object, is for an object that is neither a cluster nor a
\* container and whose parent is a cluster or a namespace.
C12_NoDeleteCallForProtected ==
    \A i \in DOMAIN last.deleted :
        IsDeletable(last.deleted[i]) /\ Removable(last.deleted[i])

\* The commands that need a selected cluster
NeedCluster ==
    {"cd", "ls", "ps", "tail", "nsenter", "exec", "sudo", "view", "eventlog", "rm"}

\* C13: any of these commands, run before a use, ends with the handled error
\* that asks for a cluster, has issued no call and leaves current the
\* placeholder.
C13_BeforeUse ==
    [][(last'.cmd \in NeedCluster /\ current = Sentinel) =>
            /\ last'.err = "k8shError"
            /\ last'.msg = "Please select"
            /\ last'.calls = 0
            /\ current' = Sentinel]_vars

\* The commands of a container
ContainerCmds == {"ps", "tail", "nsenter", "exec", "sudo"}

\* C14: with a cluster selected, ps, tail, nsenter, exec and sudo on a node
\* that is no container, and view on a node that is no service, end with the
\* handled error "Invalid context" and issue no call; on a node of the right
\* kind they issue their call. (Before any use the error is the one of C13
\* and no call is issued either.)
C14_ContextGuard ==
    last.cmd \in ContainerCmds \cup {"view"} =>
        IF Kind(current) = (IF last.cmd = "view" THEN "service" ELSE "container")
        THEN last.msg = "" /\ last.calls >= 1 /\ Len(last.issued) >= 1
        ELSE /\ last.err = "k8shError"
             /\ last.calls = 0
             /\ last.issued = <<>>
             /\ last.msg = IF Kind(current) = "" THEN "Please select"
                           ELSE "Invalid context"

\* A command of a container was refused on a pod, and view on a container.
C14_Witness ==
    /\ last.msg = "Invalid context"
    /\ \/ last.cmd \in ContainerCmds /\ Kind(current) = "pod"
       \/ last.cmd = "view" /\ Kind(current) = "container"

\* C15: a pod has a children cache exactly when it has a hostname.
C15_PodCachesTogether ==
    \A n \in (DOMAIN cache) \cup (DOMAIN hostname) :
        Kind(n) = "pod" => (n \in DOMAIN cache <=> n \in DOMAIN hostname)

\* The number of ".." of a chain of them
DotCount(arg) == (Len(arg) + 1) \div 3

\* Every step that resolves ".." returns the parent, or the object itself
\* when it has none, with nothing left to resolve
DotDotSteps(steps) ==
    \A i \in DOMAIN steps :
        steps[i].val = DOTDOT =>
            /\ ~steps[i].err
            /\ steps[i].residual = <<>>
            /\ steps[i].to = IF Parent(steps[i].at) = None THEN steps[i].at
                             ELSE Parent(steps[i].at)

\* C16, as claimed: ".." resolves to the parent, or to the object itself at
\* the root; a cd of any chain of ".." never fails and ends on an ancestor of
\* the current node or on that node.
C16_DotDotNeverFails ==
    [][(last'.cmd = "cd" /\ last'.arg \in DotPaths /\ current # Sentinel) =>
            /\ DotDotSteps(last'.steps)
            /\ last'.err = ""
            /\ IsPrefix(current', current)]_vars

\* C16, amended: a cd of k ".." from a node with d ancestors ends on the k-th
\* ancestor (the root when k = d + 1) if k <= d + 1; if k > d + 1 it fails and
\* current stays where it was.
C16_DotDotWithinDepth ==
    [][(last'.cmd = "cd" /\ last'.arg \in DotPaths /\ current # Sentinel) =>
            /\ DotDotSteps(last'.steps)
            /\ IF DotCount(last'.arg) <= Len(current)
               THEN /\ last'.err = ""
                    /\ IsPrefix(current', current)
                    /\ Len(current') = IF DotCount(last'.arg) < Len(current)
                                       THEN Len(current) - DotCount(last'.arg)
                                       ELSE 1
               ELSE last'.err = "k8shError" /\ current' = current]_vars

\* A chain of ".." whose last one was resolved at the root, which returned
\* itself.
C16_Witness ==
    /\ last.cmd = "cd"
    /\ last.arg \in DotPaths
    /\ last.err = ""
    /\ Len(last.steps) >= 2
    /\ Parent(last.steps[Len(last.steps)].at) = None
    /\ last.steps[Len(last.steps)].to = current

\* C17: a step that resolves "../<rest>" on an object without a parent fails,
\* whatever <rest> is; it is the last step of its cd, which ends with the
\* handled error and leaves current where it was.
C17_BeyondRootFails ==
    [][last'.cmd = "cd" =>
            \A i \in DOMAIN last'.steps :
                (Parent(last'.steps[i].at) = None
                    /\ StartsWith(last'.steps[i].val, DOTDOTSLASH)) =>
                        /\ last'.steps[i].err
                        /\ i = Len(last'.steps)
                        /\ last'.err = "k8shError"
                        /\ current' = current]_vars

\* A cd from below the root reached the root with "../a" left, a being a
\* child of the root, and failed there.
C17_Witness ==
    /\ last.cmd = "cd"
    /\ last.err = "k8shError"
    /\ Len(last.steps) >= 2
    /\ Parent(last.steps[Len(last.steps)].at) = None
    /\ last.steps[Len(last.steps)].val \in {Join(<<DOTDOT, sA>>), Join(<<DOTDOT, <<>>>>)}

\* C18: a step on an input that starts with "/" returns the root of the tree
\* and the input without its first character; a cd of "/" followed by p, from
\* any position, fails or succeeds as a cd of p started at the cluster root
\* does with the same backend, and on success ends on the same node.
C18_AbsolutePath ==
    [][(last'.cmd = "cd" /\ current # Sentinel) =>
            /\ \A i \in DOMAIN last'.steps :
                   StartsWith(last'.steps[i].val, SLASH) =>
                       /\ ~last'.steps[i].err
                       /\ last'.steps[i].to = RootOf(last'.steps[i].at)
                       /\ last'.steps[i].residual = Drop(last'.steps[i].val, 1)
            /\ StartsWith(last'.arg, SLASH) =>
                   \E r \in {NavCd(Begin(cache, hostname, world, last'.failAt),
                                   RootOf(current), Drop(last'.arg, 1))} :
                       /\ r.err = last'.err
                       /\ r.cache = cache'
                       /\ r.err = "" => r.node = current']_vars

\* A cd of an absolute path from below the root ended on a node that is not
\* the root.
C18_Witness ==
    /\ last.cmd = "cd"
    /\ StartsWith(last.arg, SLASH)
    /\ last.err = ""
    /\ Len(last.steps) >= 2
    /\ Parent(last.steps[1].at) # None
    /\ Parent(current) # None
    /\ ~IsPrefix(last.steps[1].at, current)

\* The children list a scan of n went through
Kids(n) == IF n \in DOMAIN cache THEN cache[n] ELSE <<>>

\* The children whose fragment is the input or, followed by "/", starts it
Hits(n, val) ==
    {i \in DOMAIN Kids(n) :
        \/ PathFragment(Kids(n)[i]) = val
        \/ StartsWith(val, PathFragment(Kids(n)[i]) \o SLASH)}

\* C19: cd called on a cluster, namespace, pod, service or container with an
\* input that is neither absolute nor ".." nor "../...", the children of the
\* object having been read: with no child whose fragment is the input or,
\* followed by "/", a prefix of it, the call fails with the not-found error;
\* otherwise it returns the first such child.
C19_CdScan ==
    (/\ last.cmd = "KubeObject.cd"
     /\ Kind(last.on) # ""
     /\ ~StartsWith(last.arg, SLASH)
     /\ last.arg # DOTDOT
     /\ ~StartsWith(last.arg, DOTDOTSLASH)
     /\ last.failed = None) =>
        IF Hits(last.on, last.arg) = {}
        THEN last.err = "k8shError" /\ last.msg = "Could not find"
        ELSE /\ last.err = ""
             /\ last.to = Kids(last.on)[CHOOSE i \in Hits(last.on, last.arg) :
                                \A j \in Hits(last.on, last.arg) : i <= j]

\* A namespace returned a pod for an input that goes on after the pod.
C19_Witness ==
    /\ last.cmd = "KubeObject.cd"
    /\ Kind(last.on) = "namespace"
    /\ last.err = ""
    /\ Kind(last.to) = "pod"
    /\ last.residual # <<>>

\* C20: cd called on an object leaves the backend, the current node of the
\* shell, every hostname and every children cache that was populated as they
\* were, and what it returns is the object, its parent, the root of its tree
\* or one of its children.
C20_CdMutatesNothing ==
    [][last'.cmd = "KubeObject.cd" =>
            /\ world' = world
            /\ current' = current
            /\ \A n \in DOMAIN cache : n \in DOMAIN cache' /\ cache'[n] = cache[n]
            /\ \A n \in DOMAIN hostname :
                   n \in DOMAIN hostname' /\ hostname'[n] = hostname[n]
            /\ last'.err = "" =>
                   \/ last'.to \in {last'.on, RootOf(last'.on)}
                   \/ Parent(last'.on) # None /\ last'.to = Parent(last'.on)
                   \/ /\ last'.on \in DOMAIN cache'
                      /\ last'.to \in Range(cache'[last'.on])]_vars

\* A namespace whose pod has its containers cached returned that pod.
C20_Witness ==
    /\ last.cmd = "KubeObject.cd"
    /\ last.err = ""
    /\ Kind(last.on) = "namespace"
    /\ Parent(last.to) = last.on
    /\ last.to \in DOMAIN cache
    /\ cache[last.to] # <<>>

\* C21: with a cluster selected, a cd without a path makes current the root
\* of its tree, which is a cluster, sends nothing to the backend and touches
\* no cache.
C21_CdEmptyRewinds ==
    [][(last'.cmd = "cd" /\ last'.arg = <<>> /\ current # Sentinel) =>
            /\ last'.err = ""
            /\ last'.calls = 0
            /\ cache' = cache
            /\ current' = RootOf(current)
            /\ Parent(current') = None
            /\ Kind(current') = "cluster"]_vars

\* A cd without a path was run in a container.
C21_Witness ==
    /\ last.cmd = "cd"
    /\ last.arg = <<>>
    /\ Kind(last.on) = "container"
    /\ Kind(current) = "cluster"

\* n copies of a sequence, one after the other
RECURSIVE Copies(_, _)
Copies(s, n) == IF n = 0 THEN <<>> ELSE s \o Copies(s, n - 1)

\* C22: listed from a cluster with n namespaces, "*/.." is the cluster n
\* times; in "*/../*" the third part is evaluated against n candidates and,
\* when the guard lets it through, the result is the list of namespaces n
\* times.
C22_LsKeepsDuplicates ==
    (last.cmd = "ls" /\ last.err = "" /\ Kind(current) = "cluster"
        /\ current \in DOMAIN cache) =>
        /\ last.arg = Join(<<sStar, DOTDOT>>) =>
               last.listed = Copies(<<current>>, Len(cache[current]))
        /\ (last.arg = Join(<<sStar, DOTDOT, sStar>>) /\ cache[current] # <<>>) =>
               /\ Len(last.segs) = 3
               /\ last.segs[3].cands = Len(cache[current])
               /\ last.listed = IF 1 + Len(cache[current]) <= ceiling
                                THEN Copies(cache[current], Len(cache[current]))
                                ELSE <<>>

\* "*/../*" listed every namespace of the cluster twice or more.
C22_Witness ==
    /\ last.cmd = "ls"
    /\ last.arg = Join(<<sStar, DOTDOT, sStar>>)
    /\ Len(last.listed) >= 4
    /\ last.listed = Copies(cache[current], Len(cache[current]))

\* C23: a ".." part of an ls reads no children and leaves the counter as it
\* was, and keeps no more nodes than it was given; a pattern that starts with
\* ".." gives nothing when listed from the cluster, where that part ends the
\* ls, and ".." alone gives the parent from anywhere else.
C23_LsDotDot ==
    (last.cmd = "ls" /\ last.arg # <<>> /\ last.msg = "") =>
        /\ \A i \in DOMAIN last.segs :
               last.segs[i].part = DOTDOT =>
                   /\ last.segs[i].reads = IF i = 1 THEN 0 ELSE last.segs[i - 1].reads
                   /\ last.segs[i].counter =
                          IF i = 1 THEN 0 ELSE last.segs[i - 1].counter
                   /\ last.segs[i].matches <= last.segs[i].cands
        /\ (Split(last.arg)[1] = DOTDOT /\ Parent(current) = None) =>
               /\ last.listed = <<>>
               /\ last.err = ""
               /\ last.calls = 0
               /\ Len(last.segs) = 1
               /\ last.segs[1].matches = 0
        /\ (last.arg = DOTDOT /\ Parent(current) # None) =>
               last.listed = <<Parent(current)>> /\ last.calls = 0

\* "../" and what follows was listed from the cluster and gave nothing.
C23_Witness ==
    /\ last.cmd = "ls"
    /\ Kind(current) = "cluster"
    /\ Len(Split(last.arg)) >= 2
    /\ Split(last.arg)[1] = DOTDOT
    /\ last.listed = <<>>
    /\ last.segs # <<>>

\* The children in list whose path fragment matches part, in the list's order
Keep(list, part) == SelectSeq(list, LAMBDA c : Match(c, part))

\* The kept children of each candidate in turn, children being the lists read
RECURSIVE KeepEach(_, _, _)
KeepEach(children, cands, part) ==
    IF cands = <<>> THEN <<>>
    ELSE Keep(children[Head(cands)], part) \o KeepEach(children, Tail(cands), part)

\* The parts of a pattern that are neither empty nor ".."
IsNamePart(part) == part # <<>> /\ part # DOTDOT

\* C24: an ls from a cluster that ended without error returns, for a pattern
\* of one name part, the children of the cluster whose fragment matches it, in
\* the order of the children, and for two name parts the matching children of
\* each node the first part kept, in turn (nothing when the counter passed the
\* ceiling). With the children of k and of a read in full, "a/pod.*" gives
\* pod a alone, "a/.." gives k, "a/pod.a" gives pod a and "x" gives nothing.
C24_LsKeepsMatches ==
    (last.cmd = "ls" /\ last.err = "" /\ Parent(current) = None
        /\ current # Sentinel /\ last.arg # <<>>) =>
        /\ (Len(Split(last.arg)) = 1 /\ IsNamePart(last.arg)) =>
               last.listed = Keep(cache[current], last.arg)
        /\ (Len(Split(last.arg)) = 2 /\ IsNamePart(Split(last.arg)[1])
               /\ IsNamePart(Split(last.arg)[2])) =>
               last.listed =
                   IF 1 + Len(Keep(cache[current], Split(last.arg)[1])) > ceiling
                   THEN <<>>
                   ELSE KeepEach(cache, Keep(cache[current], Split(last.arg)[1]),
                                 Split(last.arg)[2])
        /\ (current = ClusterK /\ cache[ClusterK] = FullList(world, ClusterK)) =>
               /\ last.arg = sX => last.listed = <<>>
               /\ last.arg = sA => last.listed = <<NsA>>
               /\ last.arg = Join(<<sA, DOTDOT>>) => last.listed = <<ClusterK>>
               /\ (ceiling >= 2 /\ NsA \in DOMAIN cache
                      /\ cache[NsA] = FullList(world, NsA)) =>
                      /\ last.arg = Join(<<sA, sPodStar>>) => last.listed = <<PodAA>>
                      /\ last.arg = Join(<<sA, sPodA>>) => last.listed = <<PodAA>>
        /\ (current = ClusterW /\ cache[ClusterW] = FullList(world, ClusterW)
               /\ last.arg = <<"v", "*">>) =>
               last.listed = [i \in 1..5 |-> WideNs(i)]

\* "a/pod.*" listed from k gave pod a and left out the service of a.
C24_Witness ==
    /\ last.cmd = "ls"
    /\ last.arg = Join(<<sA, sPodStar>>)
    /\ current = ClusterK
    /\ last.listed = <<PodAA>>
    /\ cache[NsA] = <<PodAA, SvcAA>>

\* The most master processes that ran at once while log went by, n running
\* at its start
RECURSIVE PeakLive(_, _)
PeakLive(n, log) ==
    IF log = <<>> THEN n
    ELSE IF PeakLive(IF Head(log).ev = "Popen" THEN n + 1 ELSE n - 1, Tail(log)) > n
         THEN PeakLive(IF Head(log).ev = "Popen" THEN n + 1 ELSE n - 1, Tail(log))
         ELSE n

\* C25: at most one master process runs at any time, and it is the one of
\* the shell's remote; a use never has two running at once, and terminates the
\* master of the old remote before it starts one for the new; open on a remote
\* with a master and close on a remote without one start and terminate nothing.
C25_OneMaster ==
    [][/\ Cardinality(masters') <= 1
       /\ masters' = {remote'._master[i] : i \in DOMAIN remote'._master}
       /\ last'.cmd = "use" =>
              /\ PeakLive(Cardinality(masters), last'.master_log) <= 1
              /\ \A i, j \in DOMAIN last'.master_log :
                     (last'.master_log[i].ev = "terminate"
                         /\ last'.master_log[j].ev = "Popen") => i < j
              /\ \A i \in DOMAIN last'.master_log :
                     /\ last'.master_log[i].ev = "terminate" =>
                            remote._master = <<last'.master_log[i].proc>>
                     /\ last'.master_log[i].ev = "Popen" =>
                            remote'._master = <<last'.master_log[i].proc>>
              /\ (remote._master # None /\ remote'._master # remote._master) =>
                     \E i \in DOMAIN last'.master_log :
                         last'.master_log[i] = [ev |-> "terminate", proc |-> remote._master[1]]
       /\ (last'.cmd = "RemoteCommand.open" /\ remote._master # None) =>
              /\ last'.master_log = <<>>
              /\ UNCHANGED <<remote, masters>>
       /\ (last'.cmd = "RemoteCommand.close" /\ remote._master = None) =>
              /\ last'.master_log = <<>>
              /\ UNCHANGED <<remote, masters>>]_vars

\* A use moved from one host to another: the master of the first was
\* terminated, then the master of the second was started.
C25_Witness ==
    /\ last.cmd = "use"
    /\ Len(last.master_log) = 2
    /\ last.master_log[1].ev = "terminate"
    /\ last.master_log[2].ev = "Popen"
    /\ last.master_log[1].proc.host # last.master_log[2].proc.host
    /\ masters = {last.master_log[2].proc}

\* The commands that stream the output of a remote execution
StreamingCmds == {"ps", "tail", "exec", "sudo", "nsenter", "eventlog"}

\* C26: when the operator interrupts a streaming execution of ps, tail, exec,
\* sudo, nsenter or eventlog, the process of that call is terminated, the call
\* counts as done with status 0 whatever the process would have returned, and
\* the command ends without error and without a message, having issued no
\* further call; current and the caches are as they were.
C26_InterruptIsSuccess ==
    [][(last'.cmd \in StreamingCmds /\ last'.terminated # <<>>) =>
           /\ last'.err = ""
           /\ last'.msg = ""
           /\ last'.terminated = <<last'.issued[Len(last'.issued)]>>
           /\ last'.calls = Len(last'.issued)
           /\ current' = current
           /\ cache' = cache
           /\ hostname' = hostname
           /\ world' = world]_vars

\* An nsenter was interrupted while its command streamed, at the very call
\* the backend was to fail.
C26_Witness ==
    /\ last.cmd = "nsenter"
    /\ last.terminated = <<"nsenter">>
    /\ last.issued = <<"docker inspect", "nsenter">>
    /\ last.failAt = 2
    /\ last.err = ""
    /\ Kind(current) = "container"

\* C27: once a cluster is selected, current is never the placeholder again;
\* a use makes current the parentless cluster object it names, with no
\* cache, and cd, ls, rm and every other command leave the node that the
\* parent links of current end at as it was: a node without parent, of kind
\* cluster, the only such node on the way up from current.
C27_OneRoot ==
    [][/\ current # Sentinel => current' # Sentinel
       /\ last'.cmd = "use" =>
              /\ current' = <<Obj("cluster", last'.arg)>>
              /\ cache' = EmptyMap
       /\ (last'.cmd # "use" /\ current # Sentinel) => RootOf(current') = RootOf(current)
       /\ current' # Sentinel =>
              /\ Parent(RootOf(current')) = None
              /\ Kind(RootOf(current')) = "cluster"
              /\ \A i \in 1..Len(current') :
                     Parent(SubSeq(current', 1, i)) = None <=> i = 1
              /\ \A i \in 2..Len(current') : current'[i].kind # "cluster"]_vars

\* A cd went from a pod of k down to one of its containers, three parent
\* links below the cluster.
C27_Witness ==
    /\ last.cmd = "cd"
    /\ last.err = ""
    /\ Kind(current) = "container"
    /\ Kind(last.on) = "pod"
    /\ RootOf(current) = ClusterK
    /\ Len(current) = 4

\* The request of the events of every namespace of k, with the credentials
\* of the administrator, and the request of the events of namespace a or b
\* with the credentials of that namespace
EventsOfCluster ==
    "sudo KUBECONFIG=/etc/kubernetes/admin-k.config kubectl -n admin get events --sortBy='.metadata.creationTimestamp' -A"
EventsOfA ==
    "KUBECONFIG=/etc/kubernetes/a-k.config kubectl -n a get events --sortBy='.metadata.creationTimestamp'"
EventsOfB ==
    "KUBECONFIG=/etc/kubernetes/b-k.config kubectl -n b get events --sortBy='.metadata.creationTimestamp'"

\* C28: an eventlog with a cluster selected sends one request: on the cluster
\* the one for all namespaces as administrator, on a namespace, pod, service
\* or container the one for the namespace the node is in, without sudo and
\* without -A; on either, the command ends with the error k8shError exactly
\* when the request returned a non-zero status (and was not interrupted).
C28_EventlogScope ==
    (last.cmd = "eventlog" /\ current # Sentinel) =>
        /\ Len(last.issued) = 1
        /\ Kind(current) = "cluster" <=> last.issued[1] = EventsOfCluster
        /\ (Kind(current) # "cluster" /\ current[2] = Self(NsA)) =>
               last.issued[1] = EventsOfA
        /\ (Kind(current) # "cluster" /\ current[2] = Self(NsB)) =>
               last.issued[1] = EventsOfB
        /\ last.issued[1] \in {EventsOfCluster, EventsOfA, EventsOfB}
        /\ last.err = "k8shError" <=> (last.failAt = 1 /\ last.terminated = <<>>)
        /\ last.err \in {"", "k8shError"}

\* An eventlog on a container of namespace a asked for the events of a, and
\* the request failed.
C28_Witness ==
    /\ last.cmd = "eventlog"
    /\ Kind(current) = "container"
    /\ last.issued = <<EventsOfA>>
    /\ last.err = "k8shError"

\* The path fragment each kind is to have
FragmentOf(n) ==
    CASE Kind(n) = "cluster" -> <<"/">>
      [] Kind(n) = "pod" -> <<"p", "o", "d", ".">> \o Name(n)
      [] Kind(n) = "service" -> <<"s", "e", "r", "v", "i", "c", "e", ".">> \o Name(n)
      [] OTHER -> Name(n)

\* The path each object of a tree is to have: "/" for the cluster, and the
\* path of the parent, a "/" unless that path ends with one, and the fragment
RECURSIVE PathOf(_)
PathOf(n) ==
    IF Parent(n) = None THEN <<"/">>
    ELSE IF PathOf(Parent(n)) = <<"/">> THEN <<"/">> \o FragmentOf(n)
    ELSE PathOf(Parent(n)) \o <<"/">> \o FragmentOf(n)

Leaves == {"container", "service"}

\* C30: children of a container or of a service gives the empty list without
\* error and without a call to the backend, whatever was read, fetched or
\* refreshed before, and leaves the caches as they are; refresh of one does
\* nothing; no cache ever holds a list for a container or a service.
C30_LeavesHaveNoChildren ==
    [][/\ (last'.cmd = "KubeObject.children" /\ Kind(last'.on) \in Leaves) =>
              /\ last'.ret = <<>>
              /\ last'.err = ""
              /\ last'.calls = 0
              /\ last'.fetched = <<>>
              /\ UNCHANGED <<cache, hostname, world>>
       /\ (last'.cmd = "KubeObject.refresh" /\ Kind(last'.on) \in Leaves) =>
              /\ last'.err = ""
              /\ last'.calls = 0
              /\ UNCHANGED <<cache, hostname, world>>
       /\ \A n \in DOMAIN cache' : Kind(n) \notin Leaves]_vars

\* The children of a service were read while the list of its namespace and
\* of a pod next to it were cached.
C30_Witness ==
    /\ last.cmd = "KubeObject.children"
    /\ Kind(last.on) = "service"
    /\ last.ret = <<>>
    /\ Parent(last.on) \in DOMAIN cache
    /\ \E n \in DOMAIN cache : Kind(n) = "pod"

\* Every list the caches hold for the objects from the cluster down to n is
\* the full list of what the backend holds there
CachesFullTo(n) ==
    \A i \in 1..Len(n) :
        SubSeq(n, 1, i) \in DOMAIN cache =>
            cache[SubSeq(n, 1, i)] = FullList(world, SubSeq(n, 1, i))

\* C31: a cd to the path of an object of the tree of current, no call to the
\* backend failing and the cached lists on the way being full, succeeds and
\* makes that object current, from any position.
C31_CdPathRoundTrip ==
    (last.cmd = "cd" /\ Kind(last.on) # "" /\ last.failAt = 0) =>
        \A n \in world \cup {RootOf(last.on)} :
            (IsPrefix(RootOf(last.on), n) /\ last.arg = Path(n) /\ CachesFullTo(n)) =>
                last.err = "" /\ current = n

\* C32: an rm given "-i" or "*" sends a delete call only for objects the
\* operator was asked about and answered yes for.
C32_RmAsksForEach ==
    (last.cmd = "rm" /\ \E k \in DOMAIN last.arg : last.arg[k] \in {sDashI, sStar}) =>
        \A j \in DOMAIN last.deleted :
            /\ last.asked
            /\ \E i \in DOMAIN last.to_delete :
                   last.to_delete[i] = last.deleted[j] /\ i \notin last.declined

\* C33: after a use the active remote has the host, the options and the
\* socket path of the profile selected for the cluster.
C33_RemoteOfProfile ==
    last.cmd = "use" =>
        /\ remote.host = ConfigGet(last.arg).kubectl_host
        /\ remote.ssh_opts = ConfigGet(last.arg).ssh_opts
        /\ remote.master_path = ConfigGet(last.arg).ssh_controlmaster_path

\* C34: complete_cd leaves current as it was, for every completion text and
\* whether its cd to the base succeeded or failed.
C34_CompleteCdKeepsCurrent ==
    [][last'.cmd = "complete_cd" => current' = current]_vars

\* A completion whose cd to the base reached another node and that returned
\* suggestions, and current is where it was
C34_Witness ==
    /\ last.cmd = "complete_cd"
    /\ last.steps # <<>>
    /\ ~last.steps[Len(last.steps)].err
    /\ last.steps[Len(last.steps)].to # last.on
    /\ last.ret # <<>>
    /\ current = last.on

\* C35: a cd ends after at most len(path) steps of KubeObject.cd: every step
\* but the last succeeds, each step that succeeds hands a residual strictly
\* shorter than its input to the next one, and the cd ends with an error at
\* its last step or with an empty residual.
C35_CdTerminates ==
    last.cmd = "cd" =>
        /\ Len(last.steps) <= Len(last.arg)
        /\ \A i \in DOMAIN last.steps :
               \/ last.steps[i].err /\ i = Len(last.steps) /\ last.err # ""
               \/ /\ ~last.steps[i].err
                  /\ Len(last.steps[i].residual) < Len(last.steps[i].val)
                  /\ i < Len(last.steps) =>
                         /\ last.steps[i + 1].val = last.steps[i].residual
                         /\ last.steps[i + 1].at = last.steps[i].to
                  /\ i = Len(last.steps) =>
                         last.steps[i].residual = <<>> /\ last.err = ""
        /\ last.steps # <<>> => last.steps[1].val = last.arg

\* A cd of three steps that succeeded
C35_Witness ==
    /\ last.cmd = "cd"
    /\ Len(last.steps) >= 3
    /\ last.err = ""
    /\ current = last.steps[Len(last.steps)].to
====
